---- MODULE Spec2Model ----
(***************************************************************************)
(* Failure detection and repair of CI/CD pipelines                         *)
(* (src/cicd/detectors/failure_detector.py, class FailureDetector).        *)
(*                                                                         *)
(* A pipeline text is modelled by its lexical structure: a YAML text is    *)
(* the tree of its nodes, whose scalars keep the way they were written     *)
(* (plain or quoted); a Jenkinsfile is its sequence of tokens.  Strings    *)
(* are sequences of atoms (words and variable references), so that the     *)
(* substring tests and the regular expressions of the code are tests on    *)
(* atoms.  yaml.safe_load resolves plain scalars the YAML 1.1 way PyYAML   *)
(* does (on/off/yes/no -> booleans, empty -> None, digits -> int), and     *)
(* yaml.dump writes values back, quoting the strings that would resolve    *)
(* to something else.                                                      *)
(***************************************************************************)
EXTENDS Integers, Sequences, FiniteSets, TLC

VARIABLES pipeline_content, pipeline_type, error_logs, given, report,
          patched, pc, ran, report2, patched2, other

vars == <<pipeline_content, pipeline_type, error_logs, given, report,
          patched, pc, ran, report2, patched2, other>>

---------------------------------------------------------------------------
(* Atoms of a string.                                                      *)

\* a word of text
W(w) == [k |-> "w", n |-> w]
\* ${{ secrets.NAME }}
Secret(n) == [k |-> "secret", n |-> n]
\* $NAME
Dollar(n) == [k |-> "dollar", n |-> n]
\* ${NAME}
Brace(n) == [k |-> "brace", n |-> n]
\* $(NAME)
Paren(n) == [k |-> "paren", n |-> n]
\* 'NAME' or "NAME" in a Jenkinsfile
Q(n) == [k |-> "q", n |-> n]
\* NAME = (an assignment in a Jenkinsfile)
Assign(n) == [k |-> "assign", n |-> n]
\* NAME( (a call in a Jenkinsfile, other than stage)
Call(n) == [k |-> "call", n |-> n]

---------------------------------------------------------------------------
(* Python values.                                                          *)

None == [t |-> "null"]
Bool(b) == [t |-> "bool", b |-> b]
IntV(n) == [t |-> "int", n |-> n]
Str(s) == [t |-> "str", s |-> s]
List(items) == [t |-> "seq", items |-> items]
\* a dict keeps insertion order: a sequence of [k, v] entries
Dict(items) == [t |-> "map", items |-> items]
\* what dict.get gives for a key that is not there, and a field a finding lacks
Absent == [t |-> "absent"]
\* a string literal of the code, e.g. "jobs"
K(w) == Str(<<W(w)>>)
E(key, val) == [k |-> key, v |-> val]

\* bool(v)
Truthy(v) ==
    CASE v.t = "null" -> FALSE
      [] v.t = "absent" -> FALSE
      [] v.t = "bool" -> v.b
      [] v.t = "int" -> v.n # 0
      [] v.t = "str" -> v.s # <<>>
      [] v.t = "seq" -> v.items # <<>>
      [] v.t = "map" -> v.items # <<>>

\* whether `key in c` is defined for a string literal key (else TypeError)
CanContain(c) == c.t \in {"map", "seq", "str"}

\* key in c, for c a dict (a key), a list (an element) or a str (a substring)
Contains(c, key) ==
    CASE c.t = "map" -> \E i \in 1..Len(c.items) : c.items[i].k = key
      [] c.t = "seq" -> \E i \in 1..Len(c.items) : c.items[i] = key
      [] c.t = "str" ->
            /\ key.t = "str"
            /\ \E i \in 0..(Len(c.s) - Len(key.s)) :
                 \A j \in 1..Len(key.s) : c.s[i + j] = key.s[j]
      [] OTHER -> FALSE

\* d[key] of a dict that has the key
Get(d, key) ==
    LET i == CHOOSE i \in 1..Len(d.items) : d.items[i].k = key
    IN  d.items[i].v

\* d.get(key, default) of a dict
GetOr(d, key, default) == IF Contains(d, key) THEN Get(d, key) ELSE default

\* d[key] = val: replaces the value in place, or adds the entry at the end
SetKey(d, key, val) ==
    IF Contains(d, key)
    THEN Dict([i \in 1..Len(d.items) |->
                 IF d.items[i].k = key THEN E(key, val) ELSE d.items[i]])
    ELSE Dict(Append(d.items, E(key, val)))

\* del d[key]
DelKey(d, key) == Dict(SelectSeq(d.items, LAMBDA e : e.k # key))

RECURSIVE Concat(_)
Concat(ss) == IF ss = <<>> THEN <<>> ELSE Head(ss) \o Concat(Tail(ss))

\* the words an int is written with
IntWords == {"0", "5", "42"}
IntOf(w) == CASE w = "0" -> 0 [] w = "5" -> 5 [] OTHER -> 42
WordOf(n) == CASE n = 0 -> "0" [] n = 5 -> "5" [] OTHER -> "42"

\* the atoms of str(v), in the order they are printed
RECURSIVE Repr(_)
Repr(v) ==
    CASE v.t = "null" -> <<W("None")>>
      [] v.t = "absent" -> <<W("None")>>
      [] v.t = "bool" -> IF v.b THEN <<W("True")>> ELSE <<W("False")>>
      [] v.t = "int" -> <<W(WordOf(v.n))>>
      [] v.t = "str" -> v.s
      [] v.t = "seq" -> Concat([i \in 1..Len(v.items) |-> Repr(v.items[i])])
      [] v.t = "map" ->
            Concat([i \in 1..Len(v.items) |->
                      Repr(v.items[i].k) \o Repr(v.items[i].v)])

---------------------------------------------------------------------------
(* YAML texts, yaml.safe_load and yaml.dump (PyYAML, YAML 1.1).            *)

\* a text no YAML parser accepts
Garbage == [y |-> "garbage"]
\* a scalar written without quotes
Plain(s) == [y |-> "plain", s |-> s]
\* a scalar written in quotes
Quoted(s) == [y |-> "quoted", s |-> s]
YSeq(items) == [y |-> "seq", items |-> items]
YMap(items) == [y |-> "map", items |-> items]
P(w) == Plain(<<W(w)>>)

YamlText(node) == [form |-> "yaml", node |-> node]
\* a Jenkinsfile, or any text that is not YAML-shaped: its tokens
DslText(toks) == [form |-> "dsl", toks |-> toks]

\* the implicit resolver of PyYAML: the value of a plain scalar
Resolve(s) ==
    IF s = <<>> THEN None
    ELSE IF Len(s) = 1 /\ s[1].k = "w"
    THEN CASE s[1].n \in {"null", "~"} -> None
           [] s[1].n \in {"on", "yes", "true"} -> Bool(TRUE)
           [] s[1].n \in {"off", "no", "false"} -> Bool(FALSE)
           [] s[1].n \in IntWords -> IntV(IntOf(s[1].n))
           [] OTHER -> Str(s)
    ELSE Str(s)

RECURSIVE Construct(_)
Construct(node) ==
    CASE node.y = "plain" -> Resolve(node.s)
      [] node.y = "quoted" -> Str(node.s)
      [] node.y = "seq" ->
            List([i \in 1..Len(node.items) |-> Construct(node.items[i])])
      [] node.y = "map" ->
            Dict([i \in 1..Len(node.items) |->
                    E(Construct(node.items[i].k), Construct(node.items[i].v))])

\* yaml.safe_load(text): [ok, val]; ok is FALSE when the parser raises.
\* A Jenkinsfile holds no ": " and no " #": to a YAML parser it is one
\* multi-line plain scalar, and the empty text is None.
yaml_safe_load(text) ==
    IF text.form = "yaml"
    THEN IF text.node = Garbage
         THEN [ok |-> FALSE, val |-> None]
         ELSE [ok |-> TRUE, val |-> Construct(text.node)]
    ELSE [ok |-> TRUE, val |-> Resolve(text.toks)]

RECURSIVE RepresentPlain(_)
\* a representer that writes every string plain, whatever it resolves to
RepresentPlain(v) ==
    CASE v.t = "null" -> P("null")
      [] v.t = "bool" -> IF v.b THEN P("true") ELSE P("false")
      [] v.t = "int" -> P(WordOf(v.n))
      [] v.t = "str" -> Plain(v.s)
      [] v.t = "seq" ->
            YSeq([i \in 1..Len(v.items) |-> RepresentPlain(v.items[i])])
      [] v.t = "map" ->
            YMap([i \in 1..Len(v.items) |->
                    E(RepresentPlain(v.items[i].k),
                      RepresentPlain(v.items[i].v))])

RECURSIVE Represent(_)
Represent(v) ==
    CASE v.t = "null" -> P("null")
      [] v.t = "bool" -> IF v.b THEN P("true") ELSE P("false")
      [] v.t = "int" -> P(WordOf(v.n))
      [] v.t = "str" -> IF Resolve(v.s) = v THEN Plain(v.s) ELSE Quoted(v.s)
      [] v.t = "seq" ->
            YSeq([i \in 1..Len(v.items) |-> Represent(v.items[i])])
      [] v.t = "map" ->
            YMap([i \in 1..Len(v.items) |->
                    E(Represent(v.items[i].k), Represent(v.items[i].v))])

\* yaml.dump(pipeline, sort_keys=False)
yaml_dump(v) == YamlText(Represent(v))

---------------------------------------------------------------------------
(* Findings and reports.                                                   *)

\* a finding dict: "type" and the fields that locate it ("message" and
\* "fix" are texts derived from these and are left out)
Finding(type) ==
    [type |-> type, job |-> Absent, step |-> Absent, secret |-> Absent,
     dependency |-> Absent, stage |-> Absent, variable |-> Absent,
     job_index |-> Absent, stage_index |-> Absent]

\* the dict `failures` a detection pass starts with
NewReport == [status |-> "success", failures |-> <<>>, warnings |-> <<>>,
              exc |-> FALSE]

\* failures["failures"].append(f), unless an exception already ended the pass
AddFailure(acc, f) ==
    IF acc.exc THEN acc ELSE [acc EXCEPT !.failures = Append(@, f)]
AddWarning(acc, f) ==
    IF acc.exc THEN acc ELSE [acc EXCEPT !.warnings = Append(@, f)]
\* an exception is raised inside the try block of a detection pass
Raise(acc) == [acc EXCEPT !.exc = TRUE]

RECURSIVE Fold(_, _, _)
\* a for loop over s with body Op; an exception leaves the loop
Fold(Op(_, _), acc, s) ==
    IF s = <<>> \/ acc.exc THEN acc ELSE Fold(Op, Op(acc, Head(s)), Tail(s))

Indices(s) == [i \in 1..Len(s) |-> i]

\* whether `for x in v` is defined
CanIter(v) == v.t \in {"seq", "map", "str"}
\* the values `for x in v` yields: the elements of a list, the keys of a
\* dict, the characters of a str (a character holds no whole atom)
Iter(v) ==
    CASE v.t = "seq" -> v.items
      [] v.t = "map" -> [i \in 1..Len(v.items) |-> v.items[i].k]
      [] v.t = "str" -> [i \in 1..Len(v.s) |-> K("?")]
      [] OTHER -> <<>>

\* whether a value can be a member of a set or a key (else TypeError)
Hashable(v) == v.t \notin {"seq", "map"}

\* the log phrases the heuristics look for
LogPhrase(p) == W(p)
\* `if error_logs:` followed by `phrase in error_logs`
LogHas(logs, phrase) == Truthy(logs) /\ Contains(logs, Str(<<LogPhrase(phrase)>>))

\* log checks that warn at each place a phrase occurs
LogRulesAtEachPlace(acc, logs, rules) ==
    Fold(LAMBDA a, r :
           Fold(LAMBDA a2, x : AddWarning(a2, Finding(r[2])),
                a,
                IF logs.t = "str"
                THEN SelectSeq(logs.s, LAMBDA x : x = LogPhrase(r[1]))
                ELSE <<>>),
         acc, rules)

\* the three log checks of a kind: (phrase, finding type) in code order
LogRules(acc, logs, rules) ==
    Fold(LAMBDA a, r : IF LogHas(logs, r[1])
                       THEN AddWarning(a, Finding(r[2])) ELSE a,
         acc, rules)

\* the report a pass returns: at `return failures`, or from its except
\* clause, which sets status and message on the same dict
Returned(acc) ==
    [status |-> IF acc.exc THEN "error" ELSE "success",
     failures |-> acc.failures, warnings |-> acc.warnings,
     keys |-> IF acc.exc THEN {"status", "failures", "warnings", "message"}
              ELSE {"status", "failures", "warnings"},
     message |-> IF acc.exc THEN "Erro ao analisar pipeline" ELSE ""]

\* `if not pipeline:` the report returned for an empty document
NotLoaded ==
    [status |-> "error", failures |-> <<>>, warnings |-> <<>>,
     keys |-> {"status", "failures", "warnings", "message"},
     message |-> "Nao foi possivel carregar o pipeline como YAML valido"]

---------------------------------------------------------------------------
(* GitHub Actions: detection.                                              *)

\* 1. no jobs
GhMissingJobs(acc, pipeline) ==
    IF acc.exc THEN acc
    ELSE IF ~CanContain(pipeline) THEN Raise(acc)
    ELSE IF ~Contains(pipeline, K("jobs"))
         THEN AddFailure(acc, Finding("missing_jobs")) ELSE acc

\* a rule 2 written as the elif of rule 1
GhMissingTriggersElif(acc, pipeline) ==
    IF acc.exc THEN acc
    ELSE IF ~CanContain(pipeline) THEN Raise(acc)
    ELSE IF acc.failures # <<>> THEN acc
    ELSE IF ~Contains(pipeline, K("on"))
         THEN AddFailure(acc, Finding("missing_triggers")) ELSE acc

\* 2. no triggers
GhMissingTriggers(acc, pipeline) ==
    IF acc.exc THEN acc
    ELSE IF ~CanContain(pipeline) THEN Raise(acc)
    ELSE IF ~Contains(pipeline, K("on"))
         THEN AddFailure(acc, Finding("missing_triggers")) ELSE acc

\* `if "jobs" in pipeline: for job_name, job in pipeline["jobs"].items():`
\* with Body the body of the loop
GhForJobs(Body(_, _), acc, pipeline) ==
    IF acc.exc THEN acc
    ELSE IF ~CanContain(pipeline) THEN Raise(acc)
    ELSE IF ~Contains(pipeline, K("jobs")) THEN acc
    ELSE IF pipeline.t # "map" THEN Raise(acc)
    ELSE IF Get(pipeline, K("jobs")).t # "map" THEN Raise(acc)
    ELSE Fold(Body, acc, Get(pipeline, K("jobs")).items)

\* 3. jobs without steps
GhMissingSteps(acc, pipeline) ==
    GhForJobs(LAMBDA a, e :
        IF ~CanContain(e.v) THEN Raise(a)
        ELSE IF ~Contains(e.v, K("steps"))
             THEN AddFailure(a, [Finding("missing_steps") EXCEPT !.job = e.k])
        ELSE IF e.v.t # "map" THEN Raise(a)
        ELSE IF ~Truthy(Get(e.v, K("steps")))
             THEN AddFailure(a, [Finding("missing_steps") EXCEPT !.job = e.k])
        ELSE a,
      acc, pipeline)

\* re.findall(r'\$\{\{\s*secrets\.([a-zA-Z0-9_-]+)\s*\}\}', step_str):
\* every occurrence, in order
SecretRefs(step_str) == SelectSeq(step_str, LAMBDA x : x.k = "secret")

\* 4. references to secrets
GhUndefinedSecret(acc, pipeline) ==
    GhForJobs(LAMBDA a, e :
        IF ~CanContain(e.v) THEN Raise(a)
        ELSE IF ~Contains(e.v, K("steps")) THEN a
        ELSE IF e.v.t # "map" THEN Raise(a)
        ELSE IF ~CanIter(Get(e.v, K("steps"))) THEN Raise(a)
        ELSE LET steps == Iter(Get(e.v, K("steps")))
             IN  Fold(LAMBDA a2, step_index :
                        Fold(LAMBDA a3, secret :
                               AddWarning(a3,
                                 [Finding("undefined_secret") EXCEPT
                                    !.job = e.k,
                                    !.step = IntV(step_index - 1),
                                    !.secret = K(secret.n)]),
                             a2, SecretRefs(Repr(steps[step_index]))),
                      a, Indices(steps)),
      acc, pipeline)

\* a rule 5 that checks `needs` only when it is one name
GhInvalidNeedsOfAName(acc, pipeline) ==
    GhForJobs(LAMBDA a, e :
        LET job_names == {Get(pipeline, K("jobs")).items[i].k :
                            i \in 1..Len(Get(pipeline, K("jobs")).items)}
        IN  IF ~CanContain(e.v) THEN Raise(a)
            ELSE IF ~Contains(e.v, K("needs")) THEN a
            ELSE IF e.v.t # "map" THEN Raise(a)
            ELSE IF /\ Get(e.v, K("needs")).t = "str"
                    /\ Get(e.v, K("needs")) \notin job_names
                 THEN AddFailure(a, [Finding("invalid_needs") EXCEPT
                                       !.job = e.k,
                                       !.dependency = Get(e.v, K("needs"))])
            ELSE a,
      acc, pipeline)

\* 5. needs that name no job
GhInvalidNeeds(acc, pipeline) ==
    GhForJobs(LAMBDA a, e :
        LET job_names == {Get(pipeline, K("jobs")).items[i].k :
                            i \in 1..Len(Get(pipeline, K("jobs")).items)}
            invalid(need) == [Finding("invalid_needs") EXCEPT
                                !.job = e.k, !.dependency = need]
        IN  IF ~CanContain(e.v) THEN Raise(a)
            ELSE IF ~Contains(e.v, K("needs")) THEN a
            ELSE IF e.v.t # "map" THEN Raise(a)
            ELSE LET needs == Get(e.v, K("needs"))
                 IN  IF needs.t = "str"
                     THEN IF needs \notin job_names
                          THEN AddFailure(a, invalid(needs)) ELSE a
                     ELSE IF needs.t = "seq"
                     THEN Fold(LAMBDA a2, need :
                                 IF ~Hashable(need) THEN Raise(a2)
                                 ELSE IF need \notin job_names
                                      THEN AddFailure(a2, invalid(need))
                                 ELSE a2,
                               a, needs.items)
                     ELSE a,
      acc, pipeline)

\* 6. jobs without runs-on
GhMissingRunner(acc, pipeline) ==
    GhForJobs(LAMBDA a, e :
        IF ~CanContain(e.v) THEN Raise(a)
        ELSE IF ~Contains(e.v, K("runs-on"))
             THEN AddFailure(a, [Finding("missing_runner") EXCEPT !.job = e.k])
        ELSE a,
      acc, pipeline)

\* 7. the error logs
GhLogs(acc, logs) ==
    LogRules(acc, logs,
      << <<"No such file or directory", "file_not_found">>,
         <<"Permission denied", "permission_denied">>,
         <<"Error: Process completed with exit code", "exit_code_error">> >>)

detect_github_actions_failures(text, logs) ==
    LET loaded == yaml_safe_load(text)
        pipeline == loaded.val
    IN  IF ~loaded.ok THEN Returned(Raise(NewReport))
        ELSE IF ~Truthy(pipeline) THEN NotLoaded
        ELSE Returned(
               GhLogs(
                 GhMissingRunner(
                   GhInvalidNeeds(
                     GhUndefinedSecret(
                       GhMissingSteps(
                         GhMissingTriggers(
                           GhMissingJobs(NewReport, pipeline),
                           pipeline),
                         pipeline),
                       pipeline),
                     pipeline),
                   pipeline),
                 logs))

---------------------------------------------------------------------------
(* GitLab CI: detection.                                                   *)

\* the keys of a GitLab document that are not jobs
GlReserved == {K("stages"), K("variables"), K("default"), K("include")}

\* names that start with "CI_" (var.startswith("CI_"))
CiNames == {"CI_COMMIT_SHA", "CI_JOB_ID"}
StartsWithCI(n) == n \in CiNames

\* 1. no stages (a warning)
GlMissingStages(acc, pipeline) ==
    IF acc.exc THEN acc
    ELSE IF ~CanContain(pipeline) THEN Raise(acc)
    ELSE IF ~Contains(pipeline, K("stages"))
         THEN AddWarning(acc, Finding("missing_stages")) ELSE acc

\* "script" in value or "extends" in value, for a dict
GlHasScript(value) ==
    Contains(value, K("script")) \/ Contains(value, K("extends"))

\* 2. no jobs: every top-level dict with script or extends counts
GlMissingJobs(acc, pipeline) ==
    IF acc.exc THEN acc
    ELSE IF pipeline.t # "map" THEN Raise(acc)
    ELSE LET job_count ==
               Cardinality({i \in 1..Len(pipeline.items) :
                              /\ pipeline.items[i].v.t = "map"
                              /\ GlHasScript(pipeline.items[i].v)})
         IN  IF job_count = 0
             THEN AddFailure(acc, Finding("missing_jobs")) ELSE acc

\* `for key, value in pipeline.items(): if isinstance(value, dict) and
\* key not in ["stages", "variables", "default", "include"]:` with body Body
GlForJobs(Body(_, _), acc, pipeline) ==
    IF acc.exc THEN acc
    ELSE IF pipeline.t # "map" THEN Raise(acc)
    ELSE Fold(LAMBDA a, e :
                IF e.v.t = "map" /\ e.k \notin GlReserved
                THEN Body(a, e) ELSE a,
              acc, pipeline.items)

\* 3. jobs without script or extends
GlMissingScript(acc, pipeline) ==
    GlForJobs(LAMBDA a, e :
        IF ~GlHasScript(e.v)
        THEN AddFailure(a, [Finding("missing_script") EXCEPT !.job = e.k])
        ELSE a,
      acc, pipeline)

\* re.findall(r'\$([A-Z0-9_]+)', job_str)
DollarRefs(job_str) == SelectSeq(job_str, LAMBDA x : x.k = "dollar")

\* 4. references to variables: only when `variables` is declared
GlUndefinedVariable(acc, pipeline) ==
    IF acc.exc THEN acc
    ELSE IF ~CanContain(pipeline) THEN Raise(acc)
    ELSE IF ~Contains(pipeline, K("variables")) THEN acc
    ELSE IF pipeline.t # "map" THEN Raise(acc)
    ELSE IF Get(pipeline, K("variables")).t # "map" THEN Raise(acc)
    ELSE LET variables == Get(pipeline, K("variables"))
             defined_vars == {variables.items[i].k :
                                i \in 1..Len(variables.items)}
         IN  GlForJobs(LAMBDA a, e :
                 Fold(LAMBDA a2, var :
                        IF K(var.n) \notin defined_vars /\ ~StartsWithCI(var.n)
                        THEN AddWarning(a2,
                               [Finding("undefined_variable") EXCEPT
                                  !.job = e.k, !.variable = K(var.n)])
                        ELSE a2,
                      a, DollarRefs(Repr(e.v))),
               acc, pipeline)

\* rule 5 without its guard: with no `stages` the declared set is empty
GlInvalidStageUnguarded(acc, pipeline) ==
    IF acc.exc THEN acc
    ELSE IF pipeline.t # "map" THEN Raise(acc)
    ELSE LET stages == GetOr(pipeline, K("stages"), List(<<>>))
             defined_stages ==
                 IF stages.t = "seq"
                 THEN {stages.items[i] : i \in 1..Len(stages.items)} ELSE {}
         IN  GlForJobs(LAMBDA a, e :
                 IF ~Contains(e.v, K("stage")) THEN a
                 ELSE IF Get(e.v, K("stage")) \notin defined_stages
                 THEN AddFailure(a,
                        [Finding("invalid_stage") EXCEPT
                           !.job = e.k, !.stage = Get(e.v, K("stage"))])
                 ELSE a,
               acc, pipeline)

\* 5. stages a job names that are not declared: only when `stages` is
GlInvalidStage(acc, pipeline) ==
    IF acc.exc THEN acc
    ELSE IF ~CanContain(pipeline) THEN Raise(acc)
    ELSE IF ~Contains(pipeline, K("stages")) THEN acc
    ELSE IF pipeline.t # "map" THEN Raise(acc)
    ELSE LET stages == Get(pipeline, K("stages"))
         IN  IF ~CanIter(stages) THEN Raise(acc)
             ELSE IF \E i \in 1..Len(Iter(stages)) : ~Hashable(Iter(stages)[i])
             THEN Raise(acc)
             ELSE LET defined_stages ==
                        {Iter(stages)[i] : i \in 1..Len(Iter(stages))}
                  IN  GlForJobs(LAMBDA a, e :
                          IF ~Contains(e.v, K("stage")) THEN a
                          ELSE IF ~Hashable(Get(e.v, K("stage"))) THEN Raise(a)
                          ELSE IF Get(e.v, K("stage")) \notin defined_stages
                          THEN AddFailure(a,
                                 [Finding("invalid_stage") EXCEPT
                                    !.job = e.k,
                                    !.stage = Get(e.v, K("stage"))])
                          ELSE a,
                        acc, pipeline)

\* 6. the error logs
GlLogs(acc, logs) ==
    LogRules(acc, logs,
      << <<"No such file or directory", "file_not_found">>,
         <<"Permission denied", "permission_denied">>,
         <<"Job failed", "job_failed">> >>)

detect_gitlab_ci_failures(text, logs) ==
    LET loaded == yaml_safe_load(text)
        pipeline == loaded.val
    IN  IF ~loaded.ok THEN Returned(Raise(NewReport))
        ELSE IF ~Truthy(pipeline) THEN NotLoaded
        ELSE Returned(
               GlLogs(
                 GlInvalidStage(
                   GlUndefinedVariable(
                     GlMissingScript(
                       GlMissingJobs(
                         GlMissingStages(NewReport, pipeline),
                         pipeline),
                       pipeline),
                     pipeline),
                   pipeline),
                 logs))

---------------------------------------------------------------------------
(* Jenkins: detection, by regular expressions over the text.               *)

RECURSIVE NodeAtoms(_)
\* the atoms of a YAML text, in the order they are written
NodeAtoms(node) ==
    CASE node.y \in {"plain", "quoted"} -> node.s
      [] node.y = "seq" ->
            Concat([i \in 1..Len(node.items) |-> NodeAtoms(node.items[i])])
      [] node.y = "map" ->
            Concat([i \in 1..Len(node.items) |->
                      NodeAtoms(node.items[i].k) \o NodeAtoms(node.items[i].v)])
      [] OTHER -> <<>>

\* the text as the regular expressions see it
Tokens(text) == IF text.form = "dsl" THEN text.toks ELSE NodeAtoms(text.node)

\* whether pat occurs in toks at position i
MatchAt(toks, pat, i) ==
    /\ i + Len(pat) - 1 <= Len(toks)
    /\ \A j \in 1..Len(pat) : toks[i + j - 1] = pat[j]

\* re.search of a literal sequence of tokens
Search(toks, pat) == \E i \in 1..Len(toks) : MatchAt(toks, pat, i)

RECURSIVE UpToBrace(_, _)
\* [^\}]* from position i: the position of the first "}" at or after i,
\* or Len(toks) + 1 when there is none
UpToBrace(toks, i) ==
    IF i > Len(toks) THEN i
    ELSE IF toks[i] = W("}") THEN i ELSE UpToBrace(toks, i + 1)

\* stage\s*\(\s*['"]([^'"]+)['"]\s*\)\s*\{([^\}]*)\} at position i
StageAt(toks, i) ==
    /\ i + 4 <= Len(toks)
    /\ toks[i] = W("stage") /\ toks[i + 1] = W("(")
    /\ toks[i + 2].k = "q"
    /\ toks[i + 3] = W(")") /\ toks[i + 4] = W("{")
    /\ UpToBrace(toks, i + 5) <= Len(toks)

RECURSIVE FindStages(_, _)
\* re.findall of the stage pattern from position i: the (name, body) pairs
\* of the matches, left to right, not overlapping
FindStages(toks, i) ==
    IF i > Len(toks) THEN <<>>
    ELSE IF StageAt(toks, i)
    THEN LET close == UpToBrace(toks, i + 5)
         IN  <<[name |-> toks[i + 2].n,
                body |-> SubSeq(toks, i + 5, close - 1)]>>
             \o FindStages(toks, close + 1)
    ELSE FindStages(toks, i + 1)

\* re.search(r'<word>\s*\{([^\}]*)\}', text): group(1) of the first match,
\* as [found, body]
Block(toks, word) ==
    LET starts == {i \in 1..Len(toks) :
                     /\ MatchAt(toks, <<W(word), W("{")>>, i)
                     /\ UpToBrace(toks, i + 2) <= Len(toks)}
    IN  IF starts = {} THEN [found |-> FALSE, body |-> <<>>]
        ELSE LET i == CHOOSE i \in starts : \A j \in starts : i <= j
             IN  [found |-> TRUE,
                  body |-> SubSeq(toks, i + 2, UpToBrace(toks, i + 2) - 1)]

\* re.findall(r'([a-zA-Z0-9_]+)\s*=', body): the names assigned
AssignedNames(body) ==
    {body[i].n : i \in {j \in 1..Len(body) : body[j].k = "assign"}}

\* re.findall(r'([a-zA-Z0-9_]+)\s*\(', body): the names followed by "(",
\* which are the functions called, not the parameters they declare
CalledNames(body) ==
    {body[i].n : i \in {j \in 1..Len(body) : body[j].k = "call"}}
    \cup {body[i].n : i \in {j \in 1..Len(body) - 1 :
                               body[j].k = "w" /\ body[j + 1] = W("(")}}

\* re.findall(r'\$\{([a-zA-Z0-9_]+)\}', text)
BraceRefs(toks) == SelectSeq(toks, LAMBDA x : x.k = "brace")

JenkinsBuiltins == {"BUILD_NUMBER", "JOB_NAME", "WORKSPACE"}

\* 1. to 4.: the blocks every pipeline has
JkMissingBlocks(acc, toks) ==
    LET a1 == IF ~Search(toks, <<W("pipeline"), W("{")>>)
              THEN AddFailure(acc, Finding("missing_pipeline")) ELSE acc
        a2 == IF /\ ~Search(toks, <<W("agent"), W("{")>>)
                 /\ ~Search(toks, <<W("agent"), W("any")>>)
              THEN AddFailure(a1, Finding("missing_agent")) ELSE a1
        a3 == IF ~Search(toks, <<W("stages"), W("{")>>)
              THEN AddFailure(a2, Finding("missing_stages")) ELSE a2
    IN  IF ~Search(toks, <<W("stage"), W("(")>>)
        THEN AddFailure(a3, Finding("missing_stage")) ELSE a3

\* 5. stages without steps
JkMissingSteps(acc, toks) ==
    Fold(LAMBDA a, st :
           IF ~Search(st.body, <<W("steps"), W("{")>>)
           THEN AddFailure(a, [Finding("missing_steps") EXCEPT
                                 !.stage = K(st.name)])
           ELSE a,
         acc, FindStages(toks, 1))

\* 6. references to variables
JkUndefinedVariable(acc, toks) ==
    LET env_block == Block(toks, "environment")
        params_block == Block(toks, "parameters")
        defined_vars ==
            (IF env_block.found THEN AssignedNames(env_block.body) ELSE {})
            \cup
            (IF params_block.found THEN CalledNames(params_block.body) ELSE {})
    IN  Fold(LAMBDA a, var :
               IF var.n \notin defined_vars /\ var.n \notin JenkinsBuiltins
               THEN AddWarning(a, [Finding("undefined_variable") EXCEPT
                                     !.variable = K(var.n)])
               ELSE a,
             acc, BraceRefs(toks))

\* 7. the error logs
JkLogs(acc, logs) ==
    LogRules(acc, logs,
      << <<"No such file or directory", "file_not_found">>,
         <<"Permission denied", "permission_denied">>,
         <<"groovy.lang.MissingPropertyException", "missing_property">> >>)

\* a Jenkins pass that begins by loading the text as the three others do
detect_jenkins_failures_loading(text, logs) ==
    LET loaded == yaml_safe_load(text)
        toks == Tokens(text)
    IN  IF ~loaded.ok THEN Returned(Raise(NewReport))
        ELSE IF ~Truthy(loaded.val) THEN NotLoaded
        ELSE Returned(
               JkLogs(
                 JkUndefinedVariable(
                   JkMissingSteps(JkMissingBlocks(NewReport, toks), toks),
                   toks),
                 logs))

\* the Jenkins pass: the rules over the text, then the logs
detect_jenkins_failures(text, logs) ==
    LET toks == Tokens(text)
    IN  Returned(
          JkLogs(
            JkUndefinedVariable(
              JkMissingSteps(JkMissingBlocks(NewReport, toks), toks),
              toks),
            logs))

---------------------------------------------------------------------------
(* Azure DevOps: detection.                                                *)

\* names that start with "System." or "Build."
AzPredefined == {"System.TeamProject", "Build.BuildId"}
StartsWithSystemOrBuild(n) == n \in AzPredefined

\* f"stage_{i}", the name of a stage that has none (i counts from 0)
DefaultStageNames == <<"stage_0", "stage_1", "stage_2", "stage_3", "stage_4">>
DefaultStageName(i) == K(DefaultStageNames[i + 1])

\* 1. no trigger and no pr (a warning)
AzMissingTriggers(acc, pipeline) ==
    IF acc.exc THEN acc
    ELSE IF ~CanContain(pipeline) THEN Raise(acc)
    ELSE IF ~Contains(pipeline, K("trigger")) /\ ~Contains(pipeline, K("pr"))
         THEN AddWarning(acc, Finding("missing_triggers")) ELSE acc

\* 2. no pool (a warning)
AzMissingPool(acc, pipeline) ==
    IF acc.exc THEN acc
    ELSE IF ~CanContain(pipeline) THEN Raise(acc)
    ELSE IF ~Contains(pipeline, K("pool"))
         THEN AddWarning(acc, Finding("missing_pool")) ELSE acc

\* 3. none of stages, jobs, steps
AzMissingStructure(acc, pipeline) ==
    IF acc.exc THEN acc
    ELSE IF ~CanContain(pipeline) THEN Raise(acc)
    ELSE IF /\ ~Contains(pipeline, K("stages"))
            /\ ~Contains(pipeline, K("jobs"))
            /\ ~Contains(pipeline, K("steps"))
         THEN AddFailure(acc, Finding("missing_pipeline_structure")) ELSE acc

\* `if key in pipeline: for index, x in enumerate(pipeline[key]):` with
\* body Body(acc, index from 1)
AzForEach(Body(_, _), acc, pipeline, key) ==
    IF acc.exc THEN acc
    ELSE IF ~CanContain(pipeline) THEN Raise(acc)
    ELSE IF ~Contains(pipeline, key) THEN acc
    ELSE IF pipeline.t # "map" THEN Raise(acc)
    ELSE IF ~CanIter(Get(pipeline, key)) THEN Raise(acc)
    ELSE Fold(Body, acc, Indices(Iter(Get(pipeline, key))))

\* `key not in x or not x[key]`: "T", "F", or "exc" when it raises
LacksOrEmpty(x, key) ==
    IF ~CanContain(x) THEN "exc"
    ELSE IF ~Contains(x, key) THEN "T"
    ELSE IF x.t # "map" THEN "exc"
    ELSE IF ~Truthy(Get(x, key)) THEN "T" ELSE "F"

\* 4. jobs without steps
AzMissingSteps(acc, pipeline) ==
    AzForEach(LAMBDA a, i :
        LET job == Iter(Get(pipeline, K("jobs")))[i]
            r == LacksOrEmpty(job, K("steps"))
        IN  IF r = "exc" THEN Raise(a)
            ELSE IF r = "T"
            THEN AddFailure(a, [Finding("missing_steps") EXCEPT
                                  !.job_index = IntV(i - 1)])
            ELSE a,
      acc, pipeline, K("jobs"))

\* 5. stages without jobs; the message calls stage.get
AzMissingJobs(acc, pipeline) ==
    AzForEach(LAMBDA a, i :
        LET stage == Iter(Get(pipeline, K("stages")))[i]
            r == LacksOrEmpty(stage, K("jobs"))
        IN  IF r = "exc" THEN Raise(a)
            ELSE IF r = "T"
            THEN IF stage.t # "map" THEN Raise(a)
                 ELSE AddFailure(a, [Finding("missing_jobs") EXCEPT
                                       !.stage_index = IntV(i - 1)])
            ELSE a,
      acc, pipeline, K("stages"))

\* re.findall(r'\$\(([a-zA-Z0-9_.-]+)\)', pipeline_str)
ParenRefs(pipeline_str) == SelectSeq(pipeline_str, LAMBDA x : x.k = "paren")

\* 6. references to variables
AzUndefinedVariable(acc, pipeline) ==
    IF acc.exc THEN acc
    ELSE IF ~CanContain(pipeline) THEN Raise(acc)
    ELSE LET has == Contains(pipeline, K("variables"))
             variables == IF has /\ pipeline.t = "map"
                          THEN Get(pipeline, K("variables")) ELSE None
             named == IF variables.t = "seq"
                      THEN {i \in 1..Len(variables.items) :
                              /\ variables.items[i].t = "map"
                              /\ Contains(variables.items[i], K("name"))}
                      ELSE {}
             defined_vars ==
                 CASE variables.t = "seq" ->
                        {Get(variables.items[i], K("name")) : i \in named}
                   [] variables.t = "map" ->
                        {variables.items[i].k : i \in 1..Len(variables.items)}
                   [] OTHER -> {}
         IN  IF has /\ pipeline.t # "map" THEN Raise(acc)
             ELSE IF \E i \in named :
                       ~Hashable(Get(variables.items[i], K("name")))
             THEN Raise(acc)
             ELSE Fold(LAMBDA a, var :
                         IF /\ K(var.n) \notin defined_vars
                            /\ ~StartsWithSystemOrBuild(var.n)
                         THEN AddWarning(a, [Finding("undefined_variable")
                                               EXCEPT !.variable = K(var.n)])
                         ELSE a,
                       acc, ParenRefs(Repr(pipeline)))

\* 7. dependsOn that names no stage
AzInvalidDependsOn(acc, pipeline) ==
    IF acc.exc THEN acc
    ELSE IF ~CanContain(pipeline) THEN Raise(acc)
    ELSE IF ~Contains(pipeline, K("stages")) THEN acc
    ELSE IF pipeline.t # "map" THEN Raise(acc)
    ELSE IF ~CanIter(Get(pipeline, K("stages"))) THEN Raise(acc)
    ELSE LET stages == Iter(Get(pipeline, K("stages")))
         IN  IF \E i \in 1..Len(stages) : stages[i].t # "map" THEN Raise(acc)
             ELSE LET stage_names ==
                        {GetOr(stages[i], K("name"), DefaultStageName(i - 1)) :
                           i \in 1..Len(stages)}
                      invalid(i, d) == [Finding("invalid_depends_on") EXCEPT
                                          !.stage_index = IntV(i - 1),
                                          !.dependency = d]
                  IN  Fold(LAMBDA a, i :
                        IF ~Contains(stages[i], K("dependsOn")) THEN a
                        ELSE LET depends_on == Get(stages[i], K("dependsOn"))
                             IN  IF depends_on.t = "str"
                                 THEN IF depends_on \notin stage_names
                                      THEN AddFailure(a, invalid(i, depends_on))
                                      ELSE a
                                 ELSE IF depends_on.t = "seq"
                                 THEN Fold(LAMBDA a2, depend :
                                             IF depend \notin stage_names
                                             THEN AddFailure(a2,
                                                    invalid(i, depend))
                                             ELSE a2,
                                           a, depends_on.items)
                                 ELSE a,
                        acc, Indices(stages))

\* 8. the error logs
AzLogs(acc, logs) ==
    LogRules(acc, logs,
      << <<"No such file or directory", "file_not_found">>,
         <<"Permission denied", "permission_denied">>,
         <<"Task failed", "task_failed">> >>)

detect_azure_devops_failures(text, logs) ==
    LET loaded == yaml_safe_load(text)
        pipeline == loaded.val
    IN  IF ~loaded.ok THEN Returned(Raise(NewReport))
        ELSE IF ~Truthy(pipeline) THEN NotLoaded
        ELSE Returned(
               AzLogs(
                 AzInvalidDependsOn(
                   AzUndefinedVariable(
                     AzMissingJobs(
                       AzMissingSteps(
                         AzMissingStructure(
                           AzMissingPool(
                             AzMissingTriggers(NewReport, pipeline),
                             pipeline),
                           pipeline),
                         pipeline),
                       pipeline),
                     pipeline),
                   pipeline),
                 logs))

---------------------------------------------------------------------------
(* The dispatcher: detection.                                              *)

SupportedKinds == {"github_actions", "gitlab_ci", "jenkins", "azure_devops"}

\* a dispatcher whose else branch returns None in detect_failures as it
\* does in fix_failures
UnsupportedReturnsNone ==
    [status |-> "none", failures |-> <<>>, warnings |-> <<>>,
     keys |-> {}, message |-> ""]

\* the report for a kind that is not supported
Unsupported ==
    [status |-> "error", failures |-> <<>>, warnings |-> <<>>,
     keys |-> {"status", "message"},
     message |-> "Tipo de pipeline nao suportado"]

\* an if/elif chain whose last branch takes every other kind
DetectorForFallsThrough(kind) ==
    IF kind \in SupportedKinds THEN kind ELSE "azure_devops"

\* the detection method the if/elif chain selects: "" when none is
DetectorFor(kind) == IF kind \in SupportedKinds THEN kind ELSE ""

\* the try/except of detect_failures: an exception that reaches it (a
\* result with status "raised") becomes an error report
CaughtReport(r) ==
    IF r.status = "raised"
    THEN [status |-> "error", failures |-> <<>>, warnings |-> <<>>,
          keys |-> {"status", "message"}, message |-> "Erro ao detectar falhas"]
    ELSE r

\* a detector that keeps its lists on the instance: the failures of a call
\* follow those of the call before
detect_failures_on_instance(text, kind, logs) ==
    LET method == DetectorFor(kind)
        r == CaughtReport(
               CASE method = "github_actions" ->
                      detect_github_actions_failures(text, logs)
                 [] method = "gitlab_ci" -> detect_gitlab_ci_failures(text, logs)
                 [] method = "jenkins" -> detect_jenkins_failures(text, logs)
                 [] method = "azure_devops" ->
                      detect_azure_devops_failures(text, logs)
                 [] OTHER -> Unsupported)
    IN  [report |-> IF report = [status |-> "none"] THEN r
                    ELSE [r EXCEPT !.failures = report.failures \o @],
         ran |-> IF method = "" THEN {} ELSE {method}]

\* detect_failures: [report, ran], ran being the method that ran
detect_failures(text, kind, logs) ==
    LET method == DetectorFor(kind)
    IN  [report |->
           CaughtReport(
             CASE method = "github_actions" ->
                    detect_github_actions_failures(text, logs)
               [] method = "gitlab_ci" -> detect_gitlab_ci_failures(text, logs)
               [] method = "jenkins" -> detect_jenkins_failures(text, logs)
               [] method = "azure_devops" ->
                    detect_azure_devops_failures(text, logs)
               [] OTHER -> Unsupported),
         ran |-> IF method = "" THEN {} ELSE {method}]

---------------------------------------------------------------------------
(* Repair: what the four patchers share.                                   *)

\* the state of a repair pass: the document (or text) and whether an
\* exception ended the pass
Patching(doc) == [doc |-> doc, exc |-> FALSE]
Patch(st, doc) == [st EXCEPT !.doc = doc]

\* a loop over the warnings of the report as well
GetFailuresAndWarnings(r) ==
    IF "failures" \in r.keys THEN r.failures \o r.warnings ELSE r.warnings

\* failures.get("failures", []) of a report dict
GetFailures(r) == IF "failures" \in r.keys THEN r.failures ELSE <<>>

\* `name in c` for a value name: like Contains, "exc" when it raises
\* (c is no container, or c is a str and name is not)
In(c, name) ==
    IF ~CanContain(c) THEN "exc"
    ELSE IF c.t = "str" /\ name.t # "str" THEN "exc"
    ELSE IF Contains(c, name) THEN "T" ELSE "F"

\* outer[key][field] = val, for a dict outer whose entry key is a dict
SetIn(outer, key, field, val) ==
    SetKey(outer, key, SetKey(Get(outer, key), field, val))

\* the mark of an operation that raised, where a value is expected
Exc == [t |-> "exc"]

\* a removal that deletes the whole field, whatever else it lists
WithoutDependencyOrTheOthers(entry, field, dependency) ==
    IF ~CanContain(entry) THEN Exc
    ELSE IF ~Contains(entry, field) THEN entry
    ELSE IF entry.t # "map" THEN Exc
    ELSE IF Get(entry, field).t \in {"str", "seq"} THEN DelKey(entry, field)
    ELSE entry

\* the dependency field (needs, dependsOn) of entry: Exc when the test
\* `field in entry` raises, else the entry with dependency removed from it:
\* a str field is deleted, a list loses the name and is deleted when empty
WithoutDependency(entry, field, dependency) ==
    IF ~CanContain(entry) THEN Exc
    ELSE IF ~Contains(entry, field) THEN entry
    ELSE IF entry.t # "map" THEN Exc
    ELSE LET deps == Get(entry, field)
         IN  IF deps.t = "str" THEN DelKey(entry, field)
             ELSE IF deps.t = "seq"
             THEN LET kept == SelectSeq(deps.items, LAMBDA d : d # dependency)
                  IN  IF kept = <<>> THEN DelKey(entry, field)
                      ELSE SetKey(entry, field, List(kept))
             ELSE entry

---------------------------------------------------------------------------
(* GitHub Actions: repair.                                                 *)

GhDefaultSteps ==
    List(<< Dict(<<E(K("uses"), K("actions/checkout@v3"))>>),
            Dict(<<E(K("name"), K("Run a one-line script")),
                   E(K("run"), K("echo Hello, world!"))>>) >>)

GhDefaultJobs ==
    Dict(<<E(K("build"),
             Dict(<<E(K("runs-on"), K("ubuntu-latest")),
                    E(K("steps"), GhDefaultSteps)>>))>>)

GhDefaultTriggers ==
    Dict(<<E(K("push"), Dict(<<E(K("branches"), List(<<K("main")>>))>>)),
           E(K("pull_request"),
             Dict(<<E(K("branches"), List(<<K("main")>>))>>))>>)

\* `job_name in pipeline.get("jobs", {})` and then pipeline["jobs"][job_name]:
\* "skip" when the job is not there, "exc" when an operation raises
GhJobTarget(pipeline, job_name) ==
    IF pipeline.t # "map" THEN "exc"
    ELSE LET jobs == GetOr(pipeline, K("jobs"), Dict(<<>>))
             r == In(jobs, job_name)
         IN  IF r = "exc" THEN "exc"
             ELSE IF r = "F" THEN "skip"
             ELSE IF jobs.t # "map" THEN "exc" ELSE "ok"

\* pipeline["jobs"][job_name][field] = val
GhSetJobField(st, job_name, field, val) ==
    LET target == GhJobTarget(st.doc, job_name)
        jobs == Get(st.doc, K("jobs"))
    IN  IF target = "exc" THEN Raise(st)
        ELSE IF target = "skip" THEN st
        ELSE IF Get(jobs, job_name).t # "map" THEN Raise(st)
        ELSE Patch(st, SetKey(st.doc, K("jobs"),
                              SetIn(jobs, job_name, field, val)))

GhRemoveNeed(st, job_name, dependency) ==
    LET target == GhJobTarget(st.doc, job_name)
        jobs == Get(st.doc, K("jobs"))
        job == WithoutDependency(Get(jobs, job_name), K("needs"), dependency)
    IN  IF target = "exc" THEN Raise(st)
        ELSE IF target = "skip" THEN st
        ELSE IF job = Exc THEN Raise(st)
        ELSE Patch(st, SetKey(st.doc, K("jobs"), SetKey(jobs, job_name, job)))

\* the body of the loop over failures
GhFixOne(st, failure) ==
    CASE failure.type = "missing_jobs" ->
           IF st.doc.t # "map" THEN Raise(st)
           ELSE Patch(st, SetKey(st.doc, K("jobs"), GhDefaultJobs))
      [] failure.type = "missing_triggers" ->
           IF st.doc.t # "map" THEN Raise(st)
           ELSE Patch(st, SetKey(st.doc, K("on"), GhDefaultTriggers))
      [] failure.type = "missing_steps" ->
           IF ~Truthy(failure.job) THEN st
           ELSE GhSetJobField(st, failure.job, K("steps"), GhDefaultSteps)
      [] failure.type = "invalid_needs" ->
           IF ~Truthy(failure.job) \/ ~Truthy(failure.dependency) THEN st
           ELSE GhRemoveNeed(st, failure.job, failure.dependency)
      [] failure.type = "missing_runner" ->
           IF ~Truthy(failure.job) THEN st
           ELSE GhSetJobField(st, failure.job, K("runs-on"),
                              K("ubuntu-latest"))
      [] OTHER -> st

\* what a repair pass returns instead of a text
NoText == [form |-> "none"]

\* the structured patchers share their frame: load, loop, dump; FixOne is
\* the body of the loop.  A report that is no dict, or a failure that is
\* none, has no .get: the AttributeError ends the pass
FixYaml(FixOne(_, _), text, failures) ==
    LET loaded == yaml_safe_load(text)
    IN  IF failures.status = "notadict" THEN NoText
        ELSE IF ~loaded.ok THEN NoText
        ELSE IF ~Truthy(loaded.val) THEN NoText
        ELSE LET st == Fold(LAMBDA a, failure :
                                  IF failure.type = "notadict" THEN Raise(a)
                                  ELSE FixOne(a, failure),
                            Patching(loaded.val), GetFailures(failures))
             IN  IF st.exc THEN NoText ELSE yaml_dump(st.doc)

fix_github_actions_failures(text, failures) == FixYaml(GhFixOne, text, failures)

---------------------------------------------------------------------------
(* GitLab CI: repair.                                                      *)

GlDefaultStages == List(<<K("build"), K("test"), K("deploy")>>)

GlDefaultJob ==
    Dict(<<E(K("stage"), K("build")),
           E(K("script"), List(<<K("echo 'Building...'")>>))>>)

\* job_name in pipeline
GlJobTarget(pipeline, job_name) == In(pipeline, job_name)

GlFixOne(st, failure) ==
    LET pipeline == st.doc
    IN  CASE failure.type = "missing_stages" ->
               IF pipeline.t # "map" THEN Raise(st)
               ELSE Patch(st, SetKey(pipeline, K("stages"), GlDefaultStages))
          [] failure.type = "missing_jobs" ->
               IF pipeline.t # "map" THEN Raise(st)
               ELSE Patch(st, SetKey(pipeline, K("build"), GlDefaultJob))
          [] failure.type = "missing_script" ->
               IF ~Truthy(failure.job) THEN st
               ELSE LET r == GlJobTarget(pipeline, failure.job)
                    IN  IF r = "exc" THEN Raise(st)
                        ELSE IF r = "F" THEN st
                        ELSE IF pipeline.t # "map" THEN Raise(st)
                        ELSE IF Get(pipeline, failure.job).t # "map"
                        THEN Raise(st)
                        ELSE Patch(st, SetIn(pipeline, failure.job, K("script"),
                                             List(<<K("echo 'Running...'")>>)))
          [] failure.type = "invalid_stage" ->
               IF ~Truthy(failure.job) \/ ~Truthy(failure.stage) THEN st
               ELSE LET r == GlJobTarget(pipeline, failure.job)
                    IN  IF r = "exc" THEN Raise(st)
                        ELSE IF r = "F" THEN st
                        ELSE IF ~Contains(pipeline, K("stages"))
                        THEN IF pipeline.t # "map" THEN Raise(st)
                             ELSE Patch(st, SetKey(pipeline, K("stages"),
                                                   GlDefaultStages))
                        ELSE IF pipeline.t # "map" THEN Raise(st)
                        ELSE LET stages == Get(pipeline, K("stages"))
                                 has == In(stages, failure.stage)
                             IN  IF has = "exc" THEN Raise(st)
                                 ELSE IF has = "T" THEN st
                                 ELSE IF stages.t # "seq" THEN Raise(st)
                                 ELSE Patch(st,
                                        SetKey(pipeline, K("stages"),
                                          List(Append(stages.items,
                                                      failure.stage))))
          [] OTHER -> st

fix_gitlab_ci_failures(text, failures) == FixYaml(GlFixOne, text, failures)

---------------------------------------------------------------------------
(* Azure DevOps: repair.                                                   *)

AzDefaultSteps ==
    List(<< Dict(<<E(K("checkout"), K("self"))>>),
            Dict(<<E(K("script"), K("echo Hello, world!")),
                   E(K("displayName"), K("Run a one-line script"))>>) >>)

AzDefaultJobs ==
    List(<<Dict(<<E(K("job"), K("build")), E(K("steps"), AzDefaultSteps)>>)>>)

\* len(v), for the values that have one
HasLen(v) == v.t \in {"seq", "map", "str"}
PyLen(v) == IF v.t = "str" THEN Len(v.s) ELSE Len(v.items)

\* `index is not None and index < len(pipeline.get(key, []))` and then
\* pipeline[key][index]: "skip", "exc" or "ok"
AzIndexTarget(pipeline, key, index) ==
    IF index.t \in {"null", "absent"} THEN "skip"
    ELSE IF pipeline.t # "map" THEN "exc"
    ELSE LET xs == GetOr(pipeline, key, List(<<>>))
         IN  IF ~HasLen(xs) THEN "exc"
             ELSE IF index.t # "int" THEN "exc"
             ELSE IF ~(index.n < PyLen(xs)) THEN "skip"
             ELSE IF xs.t # "seq" THEN "exc"
             ELSE IF index.n < 0 - PyLen(xs) THEN "exc" ELSE "ok"

\* xs[index] of a list, index from 0, a negative index counting from the end
AzPosition(xs, index) ==
    IF index.n >= 0 THEN index.n + 1 ELSE Len(xs.items) + index.n + 1

\* pipeline[key][index] = entry
AzSetEntry(pipeline, key, index, entry) ==
    LET xs == Get(pipeline, key)
    IN  SetKey(pipeline, key,
               List([xs.items EXCEPT ![AzPosition(xs, index)] = entry]))

\* pipeline[key][index][field] = val
AzSetField(st, key, index, field, val) ==
    LET target == AzIndexTarget(st.doc, key, index)
        entry == Get(st.doc, key).items[AzPosition(Get(st.doc, key), index)]
    IN  IF target = "exc" THEN Raise(st)
        ELSE IF target = "skip" THEN st
        ELSE IF entry.t # "map" THEN Raise(st)
        ELSE Patch(st, AzSetEntry(st.doc, key, index, SetKey(entry, field, val)))

AzRemoveDependsOn(st, index, dependency) ==
    LET target == AzIndexTarget(st.doc, K("stages"), index)
        stages == Get(st.doc, K("stages"))
        stage == WithoutDependency(stages.items[AzPosition(stages, index)],
                                   K("dependsOn"), dependency)
    IN  IF target = "exc" THEN Raise(st)
        ELSE IF target = "skip" THEN st
        ELSE IF stage = Exc THEN Raise(st)
        ELSE Patch(st, AzSetEntry(st.doc, K("stages"), index, stage))

AzFixOne(st, failure) ==
    LET pipeline == st.doc
    IN  CASE failure.type = "missing_triggers" ->
               IF pipeline.t # "map" THEN Raise(st)
               ELSE Patch(st, SetKey(pipeline, K("trigger"),
                                     List(<<K("main")>>)))
          [] failure.type = "missing_pool" ->
               IF pipeline.t # "map" THEN Raise(st)
               ELSE Patch(st, SetKey(pipeline, K("pool"),
                            Dict(<<E(K("vmImage"), K("ubuntu-latest"))>>)))
          [] failure.type = "missing_pipeline_structure" ->
               IF ~CanContain(pipeline) THEN Raise(st)
               ELSE IF \/ Contains(pipeline, K("stages"))
                       \/ Contains(pipeline, K("jobs"))
                       \/ Contains(pipeline, K("steps"))
               THEN st
               ELSE IF pipeline.t # "map" THEN Raise(st)
               ELSE Patch(st, SetKey(pipeline, K("jobs"), AzDefaultJobs))
          [] failure.type = "missing_steps" ->
               AzSetField(st, K("jobs"), failure.job_index, K("steps"),
                          AzDefaultSteps)
          [] failure.type = "missing_jobs" ->
               AzSetField(st, K("stages"), failure.stage_index, K("jobs"),
                          AzDefaultJobs)
          [] failure.type = "invalid_depends_on" ->
               IF failure.stage_index.t \in {"null", "absent"}
                  \/ ~Truthy(failure.dependency)
               THEN st
               ELSE AzRemoveDependsOn(st, failure.stage_index,
                                      failure.dependency)
          [] OTHER -> st

fix_azure_devops_failures(text, failures) == FixYaml(AzFixOne, text, failures)

---------------------------------------------------------------------------
(* Jenkins: repair, by regular-expression substitution on the text.        *)

\* \'NAME\': a quote written by a replacement template.  The templates are
\* raw strings that hold \' and re.sub leaves an unknown escape such as \'
\* alone, so the backslash stays in the text
BQ(n) == [k |-> "bq", n |-> n]

\* the text the missing_pipeline patch writes (a plain string, not a template)
JkSkeleton ==
    <<W("pipeline"), W("{"), W("agent"), W("any"), W("stages"), W("{"),
      W("stage"), W("("), Q("Build"), W(")"), W("{"),
      W("steps"), W("{"), W("echo"), Q("Building..."), W("}"),
      W("}"), W("}"), W("}")>>

JkStepsBlock(what) == <<W("steps"), W("{"), W("echo"), BQ(what), W("}")>>
JkStageBlock ==
    <<W("stage"), W("("), BQ("Build"), W(")"), W("{")>>
    \o JkStepsBlock("Building...") \o <<W("}")>>
JkStagesBlock == <<W("stages"), W("{")>> \o JkStageBlock \o <<W("}")>>

RECURSIVE SubAfter(_, _, _, _, _)
\* re.sub(r'(head[^\}]*)', r'\1' + ins, text) from position i when greedy,
\* re.sub(r'(head)', r'\1' + ins, text) when not: ins is written after
\* every match, the matches taken left to right, not overlapping
SubAfter(toks, i, head, greedy, ins) ==
    IF i > Len(toks) THEN <<>>
    ELSE IF MatchAt(toks, head, i)
    THEN LET last == IF greedy THEN UpToBrace(toks, i + Len(head)) - 1
                     ELSE i + Len(head) - 1
         IN  SubSeq(toks, i, last) \o ins
             \o SubAfter(toks, last + 1, head, greedy, ins)
    ELSE <<toks[i]>> \o SubAfter(toks, i + 1, head, greedy, ins)

\* the pattern of the missing_steps patch.  It is written
\* stage\s*\(\s*['"]{0}['"]\s*\)\s*\{[^\}]* and is never formatted: {0} is
\* a quantifier, so the pattern asks for stage( one quote ) { and no name.
\* The text is matched with the stage name replaced by "{0}" and the name
\* is put back afterwards, which leaves the tokens as they were
JkStepsPattern == <<W("stage"), W("("), W("'"), W(")"), W("{")>>

JkFixOne(st, failure) ==
    CASE failure.type = "missing_pipeline" -> Patch(st, JkSkeleton)
      [] failure.type = "missing_agent" ->
           Patch(st, SubAfter(st.doc, 1, <<W("pipeline"), W("{")>>, FALSE,
                              <<W("agent"), W("any")>>))
      [] failure.type = "missing_stages" ->
           Patch(st, SubAfter(st.doc, 1, <<W("pipeline"), W("{")>>, TRUE,
                              JkStagesBlock))
      [] failure.type = "missing_stage" ->
           Patch(st, SubAfter(st.doc, 1, <<W("stages"), W("{")>>, TRUE,
                              JkStageBlock))
      [] failure.type = "missing_steps" ->
           IF ~Truthy(failure.stage) THEN st
           ELSE IF failure.stage.t # "str" THEN Raise(st)
           ELSE Patch(st, SubAfter(st.doc, 1, JkStepsPattern, TRUE,
                                   JkStepsBlock("Running...")))
      [] OTHER -> st

\* the text with its tokens replaced: a text that is returned as it came
\* keeps its form
WithTokens(text, toks) == IF toks = Tokens(text) THEN text ELSE DslText(toks)

fix_jenkins_failures(text, failures) ==
    IF failures.status = "notadict" THEN NoText
    ELSE LET st == Fold(LAMBDA a, failure :
                          IF failure.type = "notadict" THEN Raise(a)
                          ELSE JkFixOne(a, failure),
                        Patching(Tokens(text)), GetFailures(failures))
         IN  IF st.exc THEN NoText ELSE WithTokens(text, st.doc)

---------------------------------------------------------------------------
(* The dispatcher: repair.                                                 *)

\* the repair method the if/elif chain selects: "" when none is
FixerFor(kind) == IF kind \in SupportedKinds THEN kind ELSE ""

\* the try/except of fix_failures: an exception that reaches it (a result
\* of form "raised") becomes None
CaughtText(p) == IF p.form = "raised" THEN NoText ELSE p

\* fix_failures: [patched, ran]
fix_failures(text, kind, failures) ==
    LET method == FixerFor(kind)
    IN  [patched |->
           CaughtText(
             CASE method = "github_actions" ->
                    fix_github_actions_failures(text, failures)
               [] method = "gitlab_ci" -> fix_gitlab_ci_failures(text, failures)
               [] method = "jenkins" -> fix_jenkins_failures(text, failures)
               [] method = "azure_devops" ->
                    fix_azure_devops_failures(text, failures)
               [] OTHER -> NoText),
         ran |-> IF method = "" THEN {} ELSE {method}]

---------------------------------------------------------------------------
(* The inputs of a call.                                                   *)

\* jobs (GitHub, GitLab, Jenkins stages, Azure stages) in a document
MaxJobs == 2
\* secret references in a step
MaxRefs == 2
\* names in a needs list
MaxNeeds == 2

SeqsUpTo(S, n) == UNION {[1..k -> S] : k \in 0..n}

JobNames == <<"a", "b", "c", "d">>
OnPush == YMap(<<E(P("push"), YMap(<<>>))>>)

\* a step that runs a command naming the secrets refs
GhStep(refs) == YMap(<<E(P("run"), Plain(<<W("echo")>> \o refs))>>)

GhRunsParts == {<<>>, <<E(P("runs-on"), P("ubuntu-latest"))>>}

GhStepsParts ==
    {<<>>}
    \cup {<<E(P("steps"), v)>> :
            v \in {Plain(<<>>), YSeq(<<>>), P("foo"), P("5"),
                   YSeq(<<GhStep(<<>>), GhStep(<<Secret("FOO")>>)>>)}}
    \cup {<<E(P("steps"), YSeq(<<GhStep(r)>>))>> :
            r \in SeqsUpTo({Secret("FOO"), Secret("BAR")}, MaxRefs)}

GhNeedsParts ==
    {<<>>, <<E(P("needs"), P("a"))>>, <<E(P("needs"), P("c"))>>}
    \cup {<<E(P("needs"), YSeq([i \in 1..Len(l) |-> P(l[i])]))>> :
            l \in SeqsUpTo({"a", "c"}, MaxNeeds)}

GhCleanJob ==
    YMap(<<E(P("runs-on"), P("ubuntu-latest")),
           E(P("steps"), YSeq(<<GhStep(<<>>)>>))>>)

\* the jobs a document is built from: every runner and steps, every needs
GhJobVariants ==
    {Plain(<<>>), P("foo")}
    \cup {YMap(r \o s) : r \in GhRunsParts, s \in GhStepsParts}
    \cup {YMap(GhCleanJob.items \o n) : n \in GhNeedsParts}

\* the jobs that stand beside the one that varies
GhCompanions == {GhCleanJob, YMap(<<E(P("steps"), YSeq(<<GhStep(<<>>)>>))>>)}

\* the `jobs` mappings: jobs a, b, ... of which one varies
GhJobsMaps ==
    UNION {UNION {{YMap([i \in 1..n |->
                           E(P(JobNames[i]), IF i = j THEN v ELSE c[i])]) :
                     v \in GhJobVariants, c \in [1..n -> GhCompanions]} :
                  j \in 1..n} :
           n \in 1..MaxJobs}

GhJobsParts ==
    {<<>>, <<E(P("jobs"), Plain(<<>>))>>, <<E(P("jobs"), YSeq(<<P("a")>>))>>}
    \cup {<<E(P("jobs"), m)>> : m \in GhJobsMaps}

\* on: written plain, as workflows are, or quoted
GhTriggerParts ==
    {<<>>, <<E(P("on"), OnPush)>>, <<E(Quoted(<<W("on")>>), OnPush)>>}

GhTexts == {YamlText(YMap(t \o j)) : t \in GhTriggerParts, j \in GhJobsParts}

\* lists of 1 to MaxJobs entries, one of them drawn from variants and the
\* others from companions
OneVaries(variants, companions) ==
    UNION {UNION {{[i \in 1..n |-> IF i = j THEN v ELSE c[i]] :
                     v \in variants, c \in [1..n -> companions]} :
                  j \in 1..n} :
           n \in 1..MaxJobs}

---------------------------------------------------------------------------
(* GitLab CI texts. *)

GlScript(refs) == E(P("script"), YSeq(<<Plain(<<W("echo")>> \o refs)>>))

GlJobVariants ==
    {Plain(<<>>), P("x"),
     YMap(<<E(P("image"), P("alpine"))>>),
     YMap(<<E(P("extends"), P(".base"))>>),
     YMap(<<E(P("stage"), P("build")), GlScript(<<>>)>>),
     YMap(<<E(P("stage"), P("deploy")), GlScript(<<>>)>>),
     YMap(<<E(P("stage"), P("deploy"))>>)}
    \cup {YMap(<<GlScript(r)>>) :
            r \in {<<>>, <<Dollar("FOO")>>, <<Dollar("BAR")>>,
                   <<Dollar("CI_JOB_ID")>>, <<Dollar("BAR"), Dollar("BAR")>>}}

GlCompanions == {YMap(<<GlScript(<<>>)>>), YMap(<<E(P("image"), P("alpine"))>>)}

GlJobKeys == <<"build", "b", "c", "d">>

GlJobsParts ==
    {<<>>}
    \cup {[i \in 1..Len(js) |-> E(P(GlJobKeys[i]), js[i])] :
            js \in OneVaries(GlJobVariants, GlCompanions)}

GlStagesParts ==
    {<<>>, <<E(P("stages"), YSeq(<<P("build"), P("test")>>))>>,
     <<E(P("stages"), Plain(<<>>))>>}

GlVariablesParts ==
    {<<>>, <<E(P("variables"), YMap(<<E(P("FOO"), P("x"))>>))>>,
     <<E(P("variables"), Plain(<<>>))>>}

GlDefaultParts ==
    {<<>>, <<E(P("default"), YMap(<<GlScript(<<>>)>>))>>}

GlTexts ==
    {YamlText(YMap(st \o va \o de \o jo)) :
       st \in GlStagesParts, va \in GlVariablesParts, de \in GlDefaultParts,
       jo \in GlJobsParts}

---------------------------------------------------------------------------
(* Jenkinsfiles. *)

JkStage(name, body) ==
    <<W("stage"), W("("), Q(name), W(")"), W("{")>> \o body \o <<W("}")>>

JkBodies ==
    {<<W("steps"), W("{"), W("echo"), Q("hi"), W("}")>>,
     <<W("echo"), Q("hi")>>,
     <<W("steps"), W("{"), W("echo"), Brace("FOO"), W("}")>>,
     <<W("steps"), W("{"), W("echo"), Brace("WORKSPACE"), Brace("BAR"),
       W("}")>>}

JkStageNames == <<"Build", "Test", "Deploy", "Release">>

JkStageLists ==
    UNION {{Concat([i \in 1..n |-> JkStage(JkStageNames[i], b[i])]) :
              b \in [1..n -> JkBodies]} :
           n \in 0..MaxJobs}

JkStagesParts ==
    {<<>>} \cup {<<W("stages"), W("{")>> \o l \o <<W("}")>> : l \in JkStageLists}

JkAgentParts ==
    {<<>>, <<W("agent"), W("any")>>,
     <<W("agent"), W("{"), W("label"), Q("linux"), W("}")>>}

JkEnvParts ==
    {<<>>,
     <<W("environment"), W("{"), Assign("FOO"), Q("x"), W("}")>>,
     <<W("parameters"), W("{"), Call("string"), W("name:"), Q("BAR"), W(")"),
       W("}")>>}

JkTexts ==
    {DslText(<<W("pipeline"), W("{")>> \o a \o e \o st \o <<W("}")>>) :
       a \in JkAgentParts, e \in JkEnvParts, st \in JkStagesParts}
    \cup {DslText(st) : st \in JkStagesParts}
    \cup {DslText(<<W("pipeline"), W("{"), W("agent"), W("any"),
                    W("stages"), W("{"),
                    W("stage"), W("("), W("'"), W(")"), W("{"),
                    W("echo"), Q("hi"), W("}"), W("}"), W("}")>>)}

---------------------------------------------------------------------------
(* Azure DevOps texts. *)

AzSteps(refs) == E(P("steps"), YSeq(<<YMap(<<E(P("script"),
                                               Plain(<<W("echo")>> \o refs))>>)>>))

AzJobVariants ==
    {Plain(<<>>), P("x"),
     YMap(<<E(P("job"), P("a"))>>),
     YMap(<<E(P("job"), P("a")), E(P("steps"), YSeq(<<>>))>>),
     YMap(<<E(P("job"), P("a")), E(P("steps"), Plain(<<>>))>>)}
    \cup {YMap(<<E(P("job"), P("a")), AzSteps(r)>>) :
            r \in {<<>>, <<Paren("FOO")>>, <<Paren("BAR")>>,
                   <<Paren("Build.BuildId")>>}}

AzCleanJob == YMap(<<E(P("job"), P("a")), AzSteps(<<>>)>>)
AzJobCompanions == {AzCleanJob, YMap(<<E(P("job"), P("b"))>>)}

AzStageNames == <<"s1", "s2", "s3", "s4">>
AzJobsField == E(P("jobs"), YSeq(<<AzCleanJob>>))

AzDependsParts ==
    {<<>>}
    \cup {<<E(P("dependsOn"), v)>> :
            v \in {P("s1"), P("zz"), P("stage_0"), Plain(<<>>),
                   YSeq(<<P("s1"), P("zz")>>), YSeq(<<P("zz")>>),
                   YSeq(<<P("zz"), P("s1"), P("zz")>>)}}

\* a stage is [named, rest]: its name is given when it takes its place
AzStageVariants ==
    {[named |-> TRUE, rest |-> d \o <<AzJobsField>>] : d \in AzDependsParts}
    \cup {[named |-> FALSE, rest |-> d \o <<AzJobsField>>] :
            d \in AzDependsParts}
    \cup {[named |-> TRUE, rest |-> <<>>],
          [named |-> TRUE, rest |-> <<E(P("jobs"), YSeq(<<>>))>>]}

AzStageCompanions ==
    {[named |-> TRUE, rest |-> <<AzJobsField>>], [named |-> TRUE, rest |-> <<>>]}

AzStage(i, st) ==
    YMap((IF st.named THEN <<E(P("name"), P(AzStageNames[i]))>> ELSE <<>>)
         \o st.rest)

AzStructureParts ==
    {<<>>, <<AzSteps(<<>>)>>, <<AzSteps(<<Paren("BAR")>>)>>,
     <<E(P("jobs"), Plain(<<>>))>>, <<E(P("stages"), P("x"))>>,
     <<E(P("stages"), YSeq(<<P("x")>>))>>}
    \cup {<<E(P("jobs"), YSeq(js))>> :
            js \in OneVaries(AzJobVariants, AzJobCompanions)}
    \cup {<<E(P("stages"), YSeq([i \in 1..Len(ss) |-> AzStage(i, ss[i])]))>> :
            ss \in OneVaries(AzStageVariants, AzStageCompanions)}

AzHeadParts ==
    {<<>>, <<E(P("trigger"), YSeq(<<P("main")>>))>>,
     <<E(P("trigger"), YSeq(<<P("main")>>)),
       E(P("pool"), YMap(<<E(P("vmImage"), P("ubuntu-latest"))>>))>>}

AzVariablesParts ==
    {<<>>, <<E(P("variables"), YMap(<<E(P("FOO"), P("x"))>>))>>,
     <<E(P("variables"),
         YSeq(<<YMap(<<E(P("name"), P("FOO")), E(P("value"), P("x"))>>)>>))>>}

AzTexts ==
    {YamlText(YMap(h \o v \o st)) :
       h \in AzHeadParts, v \in AzVariablesParts, st \in AzStructureParts}

---------------------------------------------------------------------------
(* The arguments of a call. *)

\* texts that are no pipeline of any kind
OddTexts ==
    {YamlText(Garbage), YamlText(Plain(<<>>)), YamlText(P("hello")),
     YamlText(P("jobs")), YamlText(P("42")), YamlText(P("0")),
     YamlText(YSeq(<<P("a")>>)), YamlText(YSeq(<<>>)), DslText(<<>>),
     DslText(<<W("hello"), W("world")>>)}

Kinds == SupportedKinds \cup {"circleci", ""}

KnownPhrases ==
    <<"No such file or directory", "Permission denied",
      "Error: Process completed with exit code", "Job failed",
      "groovy.lang.MissingPropertyException", "Task failed">>

\* the error_logs of a call: absent, empty, or lines of log
LogValues ==
    {None, Str(<<>>), Str(<<W("Build succeeded")>>),
     Str([i \in 1..Len(KnownPhrases) |-> LogPhrase(KnownPhrases[i])]),
     Str(<<LogPhrase("Permission denied"), LogPhrase("Permission denied")>>)}
    \cup {Str(<<LogPhrase(KnownPhrases[i])>>) : i \in 1..Len(KnownPhrases)}

\* stands for the report detect returned, as the report given to fix
Own == [status |-> "own"]
\* a report that is no dict
NotADict == [status |-> "notadict"]

ReportOf(fs) ==
    [status |-> "success", failures |-> fs, warnings |-> <<>>,
     keys |-> {"status", "failures", "warnings"}, message |-> ""]

\* texts of each kind that the calls with logs and with other reports use
SmallTexts ==
    OddTexts
    \cup {YamlText(YMap(<<E(P("on"), OnPush),
                          E(P("jobs"), YMap(<<E(P("a"), GhCleanJob)>>))>>)),
          YamlText(YMap(<<E(P("jobs"),
                            YMap(<<E(P("a"), YMap(<<>>)),
                                   E(P("b"), YMap(GhCleanJob.items \o
                                      <<E(P("needs"), P("c"))>>))>>))>>)),
          YamlText(YMap(<<E(P("build"), YMap(<<E(P("stage"), P("deploy"))>>)),
                          E(P("stages"), YSeq(<<P("build")>>))>>)),
          YamlText(YMap(<<E(P("stages"),
                            YSeq(<<YMap(<<E(P("name"), P("s1")),
                                          E(P("dependsOn"), P("zz"))>>)>>)),
                          E(P("jobs"), YSeq(<<YMap(<<>>)>>))>>)),
          DslText(JkSkeleton),
          DslText(<<W("pipeline"), W("{")>>
                  \o JkStage("Build", <<W("echo"), Brace("BAR")>>)
                  \o <<W("}")>>)}

\* reports other than the one detect returned
OtherReports ==
    {NotADict,
     [ReportOf(<<>>) EXCEPT !.keys = {"status", "message"}, !.status = "error"],
     ReportOf(<<Finding("notadict")>>),
     ReportOf(<<Finding("missing_jobs"), Finding("missing_triggers")>>),
     ReportOf(<<Finding("missing_steps")>>),
     ReportOf(<<[Finding("missing_steps") EXCEPT !.job = K("a")],
                [Finding("missing_runner") EXCEPT !.job = K("zz")],
                [Finding("invalid_needs") EXCEPT
                   !.job = K("b"), !.dependency = K("c")]>>),
     ReportOf(<<Finding("missing_stages"),
                [Finding("missing_script") EXCEPT !.job = K("build")],
                [Finding("invalid_stage") EXCEPT
                   !.job = K("build"), !.stage = K("deploy")]>>),
     ReportOf(<<Finding("missing_pipeline")>>),
     ReportOf(<<Finding("missing_agent"), Finding("missing_stages"),
                Finding("missing_stage"),
                [Finding("missing_steps") EXCEPT !.stage = K("Build")],
                [Finding("missing_steps") EXCEPT !.stage = IntV(5)]>>),
     ReportOf(<<Finding("missing_pool"), Finding("missing_pipeline_structure"),
                [Finding("missing_steps") EXCEPT !.job_index = IntV(0)],
                [Finding("missing_jobs") EXCEPT !.stage_index = IntV(5)],
                [Finding("invalid_depends_on") EXCEPT
                   !.stage_index = IntV(0), !.dependency = K("zz")]>>),
     ReportOf(<<[Finding("missing_steps") EXCEPT !.job_index = K("first")]>>)}

Args(t, k, l, f) == [text |-> t, kind |-> k, logs |-> l, failures |-> f]

\* the workflow with one job `build` that has steps and no runner, its
\* `on` written plain or quoted
GhBuildTexts ==
    {YamlText(YMap(<<E(on, OnPush),
                     E(P("jobs"),
                       YMap(<<E(P("build"),
                              YMap(<<E(P("steps"),
                                     YSeq(<<GhStep(<<>>)>>))>>))>>))>>)) :
       on \in {P("on"), Quoted(<<W("on")>>)}}

\* declared stages with two jobs on stages outside the list, the same one
\* or two different ones; and a stages list without build and no job
GlStageTexts ==
    {YamlText(YMap(<<E(P("stages"), YSeq(<<P("build"), P("test")>>)),
                     E(P("b"), YMap(<<E(P("stage"), P("deploy")),
                                      GlScript(<<>>)>>)),
                     E(P("c"), YMap(<<E(P("stage"), P(s)),
                                      GlScript(<<>>)>>))>>)) :
       s \in {"deploy", "prod"}}
    \cup {YamlText(YMap(<<E(P("stages"), YSeq(<<P("test")>>))>>))}

Inputs ==
    {Args(t, "github_actions", None, Own) : t \in GhTexts \cup GhBuildTexts}
    \cup {Args(t, "gitlab_ci", None, Own) : t \in GlTexts \cup GlStageTexts}
    \cup {Args(t, "jenkins", None, Own) : t \in JkTexts}
    \cup {Args(t, "azure_devops", None, Own) : t \in AzTexts}
    \cup {Args(t, k, l, Own) : t \in SmallTexts, k \in Kinds, l \in LogValues}
    \cup {Args(t, k, None, f) : t \in SmallTexts, k \in Kinds, f \in OtherReports}

---------------------------------------------------------------------------
(* The calls: detect, then fix with the report detect returned or with     *)
(* another one, then further calls on the same instance.                   *)

NoReport == [status |-> "none"]
Unset == [form |-> "unset"]

Init ==
    /\ \E in \in Inputs :
         /\ pipeline_content = in.text
         /\ pipeline_type = in.kind
         /\ error_logs = in.logs
         /\ given = in.failures
    /\ report = NoReport
    /\ patched = Unset
    /\ pc = "start"
    /\ ran = {}
    /\ report2 = NoReport
    /\ patched2 = Unset
    /\ other = None

Detect ==
    /\ pc = "start"
    /\ LET r == detect_failures(pipeline_content, pipeline_type, error_logs)
       IN  /\ report' = r.report
           /\ ran' = ran \cup {<<"detect", m>> : m \in r.ran}
    /\ pc' = "detected"
    /\ UNCHANGED <<pipeline_content, pipeline_type, error_logs, given,
                   patched, report2, patched2, other>>

Fix ==
    /\ pc = "detected"
    /\ LET r == fix_failures(pipeline_content, pipeline_type,
                             IF given = Own THEN report ELSE given)
       IN  /\ patched' = r.patched
           /\ ran' = ran \cup {<<"fix", m>> : m \in r.ran}
    /\ pc' = "fixed"
    /\ UNCHANGED <<pipeline_content, pipeline_type, error_logs, given,
                   report, report2, patched2, other>>

\* the report the caller passes to fix
TheReport == IF given = Own THEN report ELSE given

\* a further call of detect_failures on the same instance: its result is
\* kept in report2
DetectNext(text, logs, label) ==
    /\ pc = "fixed"
    /\ LET r == detect_failures(text, pipeline_type, logs)
       IN  /\ report2' = r.report
           /\ ran' = ran \cup {<<"detect", m>> : m \in r.ran}
    /\ pc' = label
    /\ UNCHANGED <<pipeline_content, pipeline_type, error_logs, given,
                   report, patched, patched2>>

\* a further call of fix_failures on the same instance: its result is kept
\* in patched2
FixNext(from, text, failures, label) ==
    /\ pc = from
    /\ LET r == fix_failures(text, pipeline_type, failures)
       IN  /\ patched2' = r.patched
           /\ ran' = ran \cup {<<"fix", m>> : m \in r.ran}
    /\ pc' = label
    /\ UNCHANGED <<pipeline_content, pipeline_type, error_logs, given,
                   report, patched, report2>>

\* detect on the text fix returned
Redetect ==
    /\ pc = "fixed"
    /\ patched # NoText
    /\ DetectNext(patched, error_logs, "redetected")
    /\ UNCHANGED other

\* fix on the text fix returned, with the same report
Refix ==
    /\ pc = "fixed"
    /\ patched # NoText
    /\ FixNext("fixed", patched, TheReport, "refixed")
    /\ UNCHANGED other

\* findings of types fix has a patch for
PatchableWarnings ==
    <<Finding("missing_triggers"), Finding("missing_pool"),
      Finding("missing_stages"), Finding("missing_agent"),
      Finding("missing_jobs")>>

\* fix on the same text, with a report that has the same failures and
\* other warnings
FixOtherWarnings ==
    /\ pc = "fixed"
    /\ TheReport # NotADict
    /\ \E w \in {<<>>, PatchableWarnings} :
         /\ w # TheReport.warnings
         /\ other' = List(w)
         /\ FixNext("fixed", pipeline_content,
                    [TheReport EXCEPT !.warnings = w], "fixed_other")

\* detect on the same text, without the logs
DetectWithoutLogs ==
    /\ pc = "fixed"
    /\ error_logs # None
    /\ DetectNext(pipeline_content, None, "detected_other")
    /\ UNCHANGED other

\* the same two calls once more, with the same arguments
DetectAgain ==
    /\ DetectNext(pipeline_content, error_logs, "detected_again")
    /\ UNCHANGED other

FixAgain ==
    /\ FixNext("detected_again", pipeline_content, TheReport, "fixed_again")
    /\ UNCHANGED other

Next ==
    \/ Detect
    \/ Fix
    \/ Redetect
    \/ Refix
    \/ FixOtherWarnings
    \/ DetectWithoutLogs
    \/ DetectAgain
    \/ FixAgain

Spec == Init /\ [][Next]_vars

---------------------------------------------------------------------------
(* Vocabulary of the properties.                                           *)

\* detect has returned
Detected == pc \in {"detected", "fixed"}
\* fix has returned, and was given the report detect returned
FixedOwn == pc = "fixed" /\ given = Own

StructuredKinds == {"github_actions", "gitlab_ci", "azure_devops"}

\* the document as yaml.safe_load gives it
Loaded == yaml_safe_load(pipeline_content)

\* the number of elements of s that satisfy Test
Count(s, Test(_)) == Len(SelectSeq(s, Test))

\* the types of the findings of a list, in order
Types(fs) == [i \in 1..Len(fs) |-> fs[i].type]

\* the entries of a mapping of a YAML text whose key is written w
Written(node, w) ==
    IF node.y # "map" THEN {}
    ELSE {i \in 1..Len(node.items) :
            /\ node.items[i].k.y \in {"plain", "quoted"}
            /\ node.items[i].k.s = <<W(w)>>}
HasWritten(node, w) == Written(node, w) # {}
ValueOf(node, w) == node.items[CHOOSE i \in Written(node, w) : TRUE].v

\* the names a `needs` of a YAML text refers to, as written
WrittenNeeds(job) ==
    IF ~HasWritten(job, "needs") THEN <<>>
    ELSE LET needs == ValueOf(job, "needs")
         IN  IF needs.y = "seq"
             THEN [i \in 1..Len(needs.items) |-> needs.items[i].s]
             ELSE <<needs.s>>

\* a text is a workflow in shape: a mapping whose `jobs`, if written, is a
\* mapping of jobs that are mappings, whose `steps`, if written, are lists
\* and whose `needs`, if written, are a name or a list of names
GhShapely(text) ==
    /\ text.form = "yaml"
    /\ text.node.y = "map"
    /\ HasWritten(text.node, "jobs") =>
         LET jobs == ValueOf(text.node, "jobs")
         IN  /\ jobs.y = "map"
             /\ \A i \in 1..Len(jobs.items) :
                  LET job == jobs.items[i].v
                  IN  /\ job.y = "map"
                      /\ HasWritten(job, "steps") =>
                           ValueOf(job, "steps").y = "seq"
                      /\ HasWritten(job, "needs") =>
                           LET needs == ValueOf(job, "needs")
                           IN  \/ needs.y = "plain" /\ needs.s # <<>>
                               \/ /\ needs.y = "seq"
                                  /\ \A k \in 1..Len(needs.items) :
                                       needs.items[k].y = "plain"

\* the jobs of a workflow, as written
WrittenJobs(text) ==
    IF HasWritten(text.node, "jobs")
    THEN ValueOf(text.node, "jobs").items ELSE <<>>

\* the elements a workflow lacks, as written, in the order of the rules:
\* jobs, triggers, then steps, declared needs and runner of each job
GhLacks(text) ==
    LET jobs == WrittenJobs(text)
        names == {jobs[i].k.s : i \in 1..Len(jobs)}
        PerJob(Lack(_)) == Concat([i \in 1..Len(jobs) |-> Lack(jobs[i].v)])
    IN  (IF HasWritten(text.node, "jobs") THEN <<>> ELSE <<"missing_jobs">>)
        \o (IF HasWritten(text.node, "on") THEN <<>>
            ELSE <<"missing_triggers">>)
        \o PerJob(LAMBDA job :
             IF HasWritten(job, "steps") /\ ValueOf(job, "steps").items # <<>>
             THEN <<>> ELSE <<"missing_steps">>)
        \o PerJob(LAMBDA job :
             [k \in 1..Count(WrittenNeeds(job), LAMBDA n : n \notin names)
                |-> "invalid_needs"])
        \o PerJob(LAMBDA job :
             IF HasWritten(job, "runs-on") THEN <<>> ELSE <<"missing_runner">>)

\* the jobs of the loaded workflow: the entries of its `jobs` mapping
LoadedJobs ==
    IF Loaded.val.t = "map" /\ Contains(Loaded.val, K("jobs"))
       /\ Get(Loaded.val, K("jobs")).t = "map"
    THEN Get(Loaded.val, K("jobs")).items ELSE <<>>

---------------------------------------------------------------------------
(* The dispatcher and the error forms.                                     *)

\* C1: whatever the text, the kind, the logs and the report are, detect
\* returns a report whose status is 'success' or 'error' and fix returns a
\* text or None: no exception escapes detect_failures or fix_failures.
C1_AlwaysAStructuredResult ==
    /\ Detected => report.status \in {"success", "error"}
    /\ pc = "fixed" => patched.form \in {"yaml", "dsl", "none"}

\* an exception was raised inside both passes of a supported kind, and
\* both returned their error forms
C1_Witness ==
    /\ pc = "fixed"
    /\ pipeline_type \in SupportedKinds
    /\ report.status = "error"
    /\ report.message = "Erro ao analisar pipeline"
    /\ patched = NoText

\* C2: for a kind that is none of the four, detect returns status 'error'
\* and fix returns None, whatever the text, logs and report are, and no
\* loader, checker or patcher is run.
C2_UnsupportedKind ==
    pipeline_type \notin SupportedKinds =>
        /\ ran = {}
        /\ Detected => report.status = "error"
        /\ pc = "fixed" => patched = NoText

\* both calls were made with an unsupported kind, on a workflow that loads
\* and with a report that has failures to repair
C2_Witness ==
    /\ pc = "fixed"
    /\ pipeline_type = "circleci"
    /\ Loaded.ok /\ Loaded.val.t = "map"
    /\ given \notin {Own, NotADict}
    /\ given.failures # <<>>

\* C3: a report with status 'error' has empty failures and warnings: what
\* the rules found before the pass was aborted is not returned with it.
C3_ErrorReportIsEmpty ==
    Detected /\ report.status = "error" =>
        report.failures = <<>> /\ report.warnings = <<>>

\* C4: for the three structured kinds, a text that fails to parse, that
\* parses to an empty document or that parses to a value that is no mapping
\* gives status 'error'.
C4_NotAMappingIsAnError ==
    /\ Detected
    /\ pipeline_type \in StructuredKinds
    /\ ~Loaded.ok \/ ~Truthy(Loaded.val) \/ Loaded.val.t # "map"
    => report.status = "error"

\* C5: for the three structured kinds, when detect returned status 'error',
\* fix with the same text and that report returns None.
C5_NoPatchAfterError ==
    /\ FixedOwn
    /\ pipeline_type \in StructuredKinds
    /\ report.status = "error"
    => patched = NoText

\* C6: for kind jenkins detect returns status 'success' for every text; the
\* constructs a text lacks are failures of the report, and the empty text
\* lacks the four blocks.
C6_JenkinsAlwaysSucceeds ==
    Detected /\ pipeline_type = "jenkins" =>
        /\ report.status = "success"
        /\ Tokens(pipeline_content) = <<>> =>
             Types(report.failures) =
                 <<"missing_pipeline", "missing_agent", "missing_stages",
                   "missing_stage">>

\* detect has returned for the empty Jenkinsfile
C6_Witness ==
    /\ Detected
    /\ pipeline_type = "jenkins"
    /\ Tokens(pipeline_content) = <<>>
    /\ Len(report.failures) = 4

---------------------------------------------------------------------------
(* GitHub Actions: the rules.                                              *)

\* a workflow with `on`, with `jobs`, and that lacks nothing
GhClean(text) ==
    /\ GhShapely(text)
    /\ HasWritten(text.node, "on")
    /\ HasWritten(text.node, "jobs")
    /\ GhLacks(text) = <<>>

\* C7: a workflow with a top-level `on:`, with `jobs:` whose jobs all have
\* `runs-on` and a non-empty `steps`, and whose `needs` all name declared
\* jobs, gives status 'success' and no failures.
C7_CleanWorkflowHasNoFailures ==
    /\ Detected
    /\ pipeline_type = "github_actions"
    /\ GhClean(pipeline_content)
    => report.status = "success" /\ report.failures = <<>>

\* C8: a workflow that lacks exactly one element a rule checks gives
\* exactly one failure, of that rule's type; one with `on:` and without
\* `jobs:` gives [missing_jobs].
C8_OneLackOneFailure ==
    /\ Detected
    /\ pipeline_type = "github_actions"
    /\ GhShapely(pipeline_content)
    /\ Len(GhLacks(pipeline_content)) = 1
    => /\ report.status = "success"
       /\ Types(report.failures) = GhLacks(pipeline_content)

\* the names the `needs` of a loaded job refers to
LoadedNeeds(job) ==
    IF job.t = "map" /\ Contains(job, K("needs"))
    THEN LET needs == Get(job, K("needs"))
         IN  CASE needs.t = "str" -> <<needs>>
               [] needs.t = "seq" -> needs.items
               [] OTHER -> <<>>
    ELSE <<>>

\* C9: for every job J with `needs`, a name or a list, detect reports
\* invalid_needs with job J and dependency D for exactly the names D it
\* refers to that are no key of `jobs`, once for each reference, and never
\* for a declared job.
C9_InvalidNeedsExactly ==
    Detected /\ pipeline_type = "github_actions" /\ report.status = "success"
    =>
    LET names == {LoadedJobs[i].k : i \in 1..Len(LoadedJobs)}
        invalid == SelectSeq(report.failures,
                             LAMBDA f : f.type = "invalid_needs")
    IN  /\ \A k \in 1..Len(invalid) : invalid[k].job \in names
        /\ \A i \in 1..Len(LoadedJobs) :
             LET J == LoadedJobs[i].k
                 refs == LoadedNeeds(LoadedJobs[i].v)
             IN  \A D \in names \cup {refs[k] : k \in 1..Len(refs)}
                          \cup {invalid[k].dependency : k \in 1..Len(invalid)} :
                   Count(invalid, LAMBDA f : f.job = J /\ f.dependency = D)
                   = IF D \in names THEN 0
                     ELSE Count(refs, LAMBDA r : r = D)

\* jobs a and b, b needing [a, c]: one finding, for c
C9_Witness ==
    /\ Detected
    /\ pipeline_type = "github_actions"
    /\ report.status = "success"
    /\ {LoadedJobs[i].k : i \in 1..Len(LoadedJobs)} = {K("a"), K("b")}
    /\ \E i \in 1..Len(LoadedJobs) :
         /\ LoadedJobs[i].k = K("b")
         /\ LoadedNeeds(LoadedJobs[i].v) = <<K("a"), K("c")>>
    /\ Count(report.failures, LAMBDA f : f.type = "invalid_needs") = 1
    /\ \E k \in 1..Len(report.failures) :
         /\ report.failures[k].type = "invalid_needs"
         /\ report.failures[k].job = K("b")
         /\ report.failures[k].dependency = K("c")

\* the steps of a loaded job, when they are a list
LoadedSteps(job) ==
    IF job.t = "map" /\ Contains(job, K("steps"))
       /\ Get(job, K("steps")).t = "seq"
    THEN Get(job, K("steps")).items ELSE <<>>

\* C10: for every step of every job, detect gives exactly one
\* undefined_secret warning for each distinct NAME the step refers to as
\* ${{ secrets.NAME }}, and never reports undefined_secret as a failure.
C10_OneWarningPerDistinctSecret ==
    Detected /\ pipeline_type = "github_actions" /\ report.status = "success"
    =>
    /\ \A k \in 1..Len(report.failures) :
         report.failures[k].type # "undefined_secret"
    /\ \A i \in 1..Len(LoadedJobs) :
         LET steps == LoadedSteps(LoadedJobs[i].v)
         IN  \A j \in 1..Len(steps) :
               LET refs == SecretRefs(Repr(steps[j]))
               IN  \A n \in {refs[k].n : k \in 1..Len(refs)} :
                     Count(report.warnings,
                           LAMBDA f : /\ f.type = "undefined_secret"
                                      /\ f.job = LoadedJobs[i].k
                                      /\ f.step = IntV(j - 1)
                                      /\ f.secret = K(n)) = 1

---------------------------------------------------------------------------
(* The rules of a pass, and the order of its findings.                     *)

\* what each rule of a kind finds when it runs alone, in the order of the
\* rules
RulesAlone(kind, text, logs) ==
    LET pipeline == yaml_safe_load(text).val
        toks == Tokens(text)
    IN  CASE kind = "github_actions" ->
               <<GhMissingJobs(NewReport, pipeline),
                 GhMissingTriggers(NewReport, pipeline),
                 GhMissingSteps(NewReport, pipeline),
                 GhUndefinedSecret(NewReport, pipeline),
                 GhInvalidNeeds(NewReport, pipeline),
                 GhMissingRunner(NewReport, pipeline),
                 GhLogs(NewReport, logs)>>
          [] kind = "gitlab_ci" ->
               <<GlMissingStages(NewReport, pipeline),
                 GlMissingJobs(NewReport, pipeline),
                 GlMissingScript(NewReport, pipeline),
                 GlUndefinedVariable(NewReport, pipeline),
                 GlInvalidStage(NewReport, pipeline),
                 GlLogs(NewReport, logs)>>
          [] kind = "jenkins" ->
               <<JkMissingBlocks(NewReport, toks),
                 JkMissingSteps(NewReport, toks),
                 JkUndefinedVariable(NewReport, toks),
                 JkLogs(NewReport, logs)>>
          [] kind = "azure_devops" ->
               <<AzMissingTriggers(NewReport, pipeline),
                 AzMissingPool(NewReport, pipeline),
                 AzMissingStructure(NewReport, pipeline),
                 AzMissingSteps(NewReport, pipeline),
                 AzMissingJobs(NewReport, pipeline),
                 AzUndefinedVariable(NewReport, pipeline),
                 AzInvalidDependsOn(NewReport, pipeline),
                 AzLogs(NewReport, logs)>>
          [] OTHER -> <<>>

\* the place of a GitHub Actions failure type in the order of the rules
GhRank(type) ==
    CASE type = "missing_jobs" -> 1
      [] type = "missing_triggers" -> 2
      [] type = "missing_steps" -> 3
      [] type = "invalid_needs" -> 4
      [] type = "missing_runner" -> 5
      [] OTHER -> 6

---------------------------------------------------------------------------
(* Repair: what it reads and what it changes.                              *)

\* C12: fix patches no warning: with the same text and the same failures,
\* a report with other warnings gives the same result, be the warnings
\* none or findings of types fix has a patch for.
C12_WarningsNeverPatched ==
    pc = "fixed_other" => patched2 = patched

\* fix returned the same Azure DevOps text for a report whose warnings name
\* the trigger and the pool the document lacks
C12_Witness ==
    /\ pc = "fixed_other"
    /\ pipeline_type = "azure_devops"
    /\ other = List(PatchableWarnings)
    /\ Loaded.val.t = "map"
    /\ ~Contains(Loaded.val, K("trigger"))
    /\ ~Contains(Loaded.val, K("pool"))
    /\ patched2.form = "yaml"
    /\ patched2 = patched

\* fix has returned, whatever was called after it
Fixed == pc \notin {"start", "detected"}

\* C13: for the structured kinds, when detect succeeds with report r, fix
\* with r returns a text, detect on that text succeeds, and its failures
\* hold no finding with the type and the location of a failure of r.
C13_PatchThenDetectConverges ==
    /\ pipeline_type \in StructuredKinds
    /\ given = Own
    /\ Fixed
    /\ report.status = "success"
    => /\ patched # NoText
       /\ pc = "redetected" =>
            /\ report2.status = "success"
            /\ \A i \in 1..Len(report.failures) :
                 \A j \in 1..Len(report2.failures) :
                    report2.failures[j] # report.failures[i]

\* the missing_steps failures of a Jenkins report
StagesWithoutSteps(r) ==
    {r.failures[i].stage :
       i \in {k \in 1..Len(r.failures) : r.failures[k].type = "missing_steps"}}

\* C14: when detect reports missing_steps for a Jenkins stage S and fix is
\* run with that report, detect on the patched text no longer reports
\* missing_steps for S.
C14_JenkinsStepsRepaired ==
    /\ pipeline_type = "jenkins"
    /\ given = Own
    /\ pc = "redetected"
    => StagesWithoutSteps(report) \cap StagesWithoutSteps(report2) = {}

\* the document of the text fix returned
Repaired == yaml_safe_load(patched).val

\* the keys of a dict, in order
Keys(d) == [i \in 1..Len(d.items) |-> d.items[i].k]

\* the dependencies the report names for the entry at a location: loc is
\* the field of the finding that locates it, at its value
Reported(type, Loc(_), at) ==
    {report.failures[i].dependency :
       i \in {k \in 1..Len(report.failures) :
                /\ report.failures[k].type = type
                /\ Loc(report.failures[k]) = at}}

\* whether the report has a failure of a type at a location
HasFailure(type, Loc(_), at) ==
    \E k \in 1..Len(report.failures) :
       report.failures[k].type = type /\ Loc(report.failures[k]) = at

\* the fields of the entry at a location that the repairs of its other
\* failures set
PatchedFields(Loc(_), at) ==
    (IF HasFailure("missing_steps", Loc, at) THEN {K("steps")} ELSE {})
    \cup (IF HasFailure("missing_runner", Loc, at) THEN {K("runs-on")} ELSE {})
    \cup (IF HasFailure("missing_jobs", Loc, at) THEN {K("jobs")} ELSE {})

\* the dependency field after the repair: the names that were not
\* reported, in their order; no field when none is left or the field was
\* one reported name
ExpectedDependencies(deps, reported) ==
    IF deps = Absent \/ reported = {} THEN deps
    ELSE IF deps.t = "seq"
    THEN LET kept == SelectSeq(deps.items, LAMBDA d : d \notin reported)
         IN  IF kept = <<>> THEN Absent ELSE List(kept)
    ELSE Absent

\* an entry (job, stage) after the repair: its dependency field is the
\* expected one, its other fields are unchanged but for those that other
\* failures of the entry had patched, and it has no further field
RepairedAsExpected(old, new, field, reported, patchedKeys) ==
    /\ new.t = "map"
    /\ GetOr(new, field, Absent)
         = ExpectedDependencies(GetOr(old, field, Absent), reported)
    /\ \A i \in 1..Len(old.items) :
         old.items[i].k \notin patchedKeys \cup {field} =>
            /\ Contains(new, old.items[i].k)
            /\ Get(new, old.items[i].k) = old.items[i].v
    /\ \A i \in 1..Len(new.items) :
         new.items[i].k \notin patchedKeys => Contains(old, new.items[i].k)
    /\ SelectSeq(Keys(new), LAMBDA k : Contains(old, k) /\ k # field)
         = SelectSeq(Keys(old), LAMBDA k : k # field)

\* the stages of a loaded Azure DevOps document
LoadedStages(doc) ==
    IF doc.t = "map" /\ Contains(doc, K("stages"))
       /\ Get(doc, K("stages")).t = "seq"
    THEN Get(doc, K("stages")).items ELSE <<>>

GhBuildWithoutRunner(text) ==
    /\ GhShapely(text)
    /\ Len(text.node.items) = 2
    /\ HasWritten(text.node, "on")
    /\ ValueOf(text.node, "on") = OnPush
    /\ HasWritten(text.node, "jobs")
    /\ LET jobs == ValueOf(text.node, "jobs")
       IN  /\ Len(jobs.items) = 1
           /\ HasWritten(jobs, "build")
           /\ HasWritten(ValueOf(jobs, "build"), "steps")
           /\ ValueOf(ValueOf(jobs, "build"), "steps").items # <<>>
           /\ ~HasWritten(ValueOf(jobs, "build"), "runs-on")

\* C16: for the workflow `on: {push: {}}` with the single job `build` that
\* has steps and no runs-on, detect returns exactly one failure,
\* missing_runner for job build, and fix with that report returns a text
\* whose document has build.runs-on = 'ubuntu-latest' and the same steps.
C16_BuildGetsItsRunner ==
    /\ pipeline_type = "github_actions"
    /\ given = Own
    /\ Fixed
    /\ GhBuildWithoutRunner(pipeline_content)
    =>
    /\ report.status = "success"
    /\ report.failures =
         <<[Finding("missing_runner") EXCEPT !.job = K("build")]>>
    /\ patched # NoText
    /\ LET old == Get(Get(Loaded.val, K("jobs")), K("build"))
           new == Get(Get(Repaired, K("jobs")), K("build"))
       IN  /\ Get(new, K("runs-on")) = K("ubuntu-latest")
           /\ Get(new, K("steps")) = Get(old, K("steps"))

---------------------------------------------------------------------------
(* Calls on one instance.                                                  *)

C18_FixIsIdempotent ==
    pc = "refixed" =>
        /\ patched2 # NoText
        /\ pipeline_type = "jenkins" => patched2 = patched
        /\ pipeline_type \in StructuredKinds =>
             yaml_safe_load(patched2).val = Repaired

---------------------------------------------------------------------------
(* The logs.                                                               *)

\* the warning type of each phrase the log heuristics of a kind know
LogTypes(kind) ==
    << <<"No such file or directory", "file_not_found">>,
       <<"Permission denied", "permission_denied">>,
       CASE kind = "github_actions" ->
              <<"Error: Process completed with exit code", "exit_code_error">>
         [] kind = "gitlab_ci" -> <<"Job failed", "job_failed">>
         [] kind = "jenkins" ->
              <<"groovy.lang.MissingPropertyException", "missing_property">>
         [] OTHER -> <<"Task failed", "task_failed">> >>

\* whether a phrase occurs in the logs
Occurs(phrase, logs) ==
    logs.t = "str" /\ \E i \in 1..Len(logs.s) : logs.s[i] = W(phrase)

---------------------------------------------------------------------------
(* GitLab CI: what counts as a job.                                       *)

\* the jobs of a loaded GitLab CI document: the top-level entries, other
\* than the reserved keys, that are mappings with `script` or `extends`
GlJobs(doc) ==
    SelectSeq(doc.items,
              LAMBDA e : /\ e.k \notin {K("stages"), K("variables"),
                                        K("default"), K("include")}
                         /\ e.v.t = "map"
                         /\ \/ Contains(e.v, K("script"))
                            \/ Contains(e.v, K("extends")))

\* C20: GitLab CI detect reports missing_jobs exactly when no top-level
\* entry other than stages, variables, default and include is a mapping
\* with `script` or `extends`; a `script` under a reserved key makes no job.
C20_GitlabMissingJobs ==
    /\ Detected
    /\ pipeline_type = "gitlab_ci"
    /\ report.status = "success"
    /\ Loaded.val.t = "map"
    => ((\E i \in 1..Len(report.failures) :
            report.failures[i].type = "missing_jobs")
        <=> GlJobs(Loaded.val) = <<>>)

---------------------------------------------------------------------------
(* GitLab CI: variables and stages.                                        *)

\* the top-level entries of a loaded GitLab CI document that the per-job
\* rules visit: mappings under a key that is not reserved
GlJobEntries(doc) ==
    SelectSeq(doc.items,
              LAMBDA e : e.v.t = "map" /\ e.k \notin GlReserved)

\* the names the top-level `variables` map declares; none without the map
GlDeclaredVariables(doc) ==
    IF Contains(doc, K("variables")) /\ Get(doc, K("variables")).t = "map"
    THEN {Get(doc, K("variables")).items[i].k :
            i \in 1..Len(Get(doc, K("variables")).items)}
    ELSE {}

\* C21: every $NAME in a job's body that is neither declared under
\* `variables` nor starts with CI_ gets an undefined_variable warning for
\* that job and name, also in a document without a `variables` section.
C21_UndeclaredVariableWarned ==
    /\ Detected
    /\ pipeline_type = "gitlab_ci"
    /\ report.status = "success"
    /\ Loaded.val.t = "map"
    => \A i \in 1..Len(GlJobEntries(Loaded.val)) :
          LET e == GlJobEntries(Loaded.val)[i]
              refs == DollarRefs(Repr(e.v))
          IN  \A j \in 1..Len(refs) :
                 /\ K(refs[j].n) \notin GlDeclaredVariables(Loaded.val)
                 /\ ~StartsWithCI(refs[j].n)
                 => \E w \in 1..Len(report.warnings) :
                       /\ report.warnings[w].type = "undefined_variable"
                       /\ report.warnings[w].job = e.k
                       /\ report.warnings[w].variable = K(refs[j].n)

\* the invalid_stage failures the declared list calls for: one for each job
\* with a `stage` that the list does not hold, in the order of the jobs
GlExpectedInvalidStages(doc) ==
    LET declared == Get(doc, K("stages")).items
        late == SelectSeq(GlJobEntries(doc),
                  LAMBDA e : /\ Contains(e.v, K("stage"))
                             /\ \A i \in 1..Len(declared) :
                                   declared[i] # Get(e.v, K("stage")))
    IN  [i \in 1..Len(late) |->
           [Finding("invalid_stage") EXCEPT
              !.job = late[i].k, !.stage = Get(late[i].v, K("stage"))]]

---------------------------------------------------------------------------
(* GitLab CI: the repairs.                                                 *)

\* the stages the report's invalid_stage failures name
GlReportedStages ==
    {report.failures[i].stage :
       i \in {k \in 1..Len(report.failures) :
                report.failures[k].type = "invalid_stage"}}

\* the fields of a job that the repairs of its other failures set
GlPatchedFields(job) ==
    IF HasFailure("missing_script", LAMBDA f : f.job, job)
    THEN {K("script")} ELSE {}

\* a job after the repair: every field it had is kept with its value, and
\* it gained no field but those that other repairs set
GlJobKept(old, new, mayGain) ==
    /\ new.t = "map"
    /\ \A i \in 1..Len(old.items) :
         old.items[i].k \notin mayGain =>
            /\ Contains(new, old.items[i].k)
            /\ Get(new, old.items[i].k) = old.items[i].v
    /\ \A i \in 1..Len(new.items) :
         new.items[i].k \notin mayGain => Contains(old, new.items[i].k)

\* C23: the repair of invalid_stage failures returns a document whose
\* `stages` is the declared list, in its order, followed by each missing
\* stage once; every job with such a failure keeps its `stage` and its
\* other fields.
C23_InvalidStageRepair ==
    /\ FixedOwn
    /\ pipeline_type = "gitlab_ci"
    /\ report.status = "success"
    /\ GlReportedStages # {}
    => /\ patched # NoText
       /\ LET old == Get(Loaded.val, K("stages")).items
              new == Get(Repaired, K("stages")).items
          IN  /\ Len(new) = Len(old) + Cardinality(GlReportedStages)
              /\ SubSeq(new, 1, Len(old)) = old
              /\ {new[i] : i \in Len(old) + 1..Len(new)} = GlReportedStages
       /\ \A i \in 1..Len(report.failures) :
             report.failures[i].type = "invalid_stage" =>
                LET job == report.failures[i].job
                IN  /\ Contains(Repaired, job)
                    /\ GlJobKept(Get(Loaded.val, job), Get(Repaired, job),
                                 GlPatchedFields(job))

\* C24: when detect reports missing_stages for a GitLab CI document and fix
\* runs with that report, the patched document has
\* stages = [build, test, deploy].
C24_MissingStagesRepaired ==
    /\ FixedOwn
    /\ pipeline_type = "gitlab_ci"
    /\ report.status = "success"
    /\ \E i \in 1..Len(report.warnings) :
          report.warnings[i].type = "missing_stages"
    => /\ patched # NoText
       /\ GetOr(Repaired, K("stages"), Absent) = GlDefaultStages

---------------------------------------------------------------------------
(* Jenkins: the skeleton.                                                  *)

\* C25: when the report detect gave for a Jenkins text has missing_pipeline,
\* fix returns exactly the minimal skeleton (one pipeline block, one
\* `agent any`, one stages block, one stage('Build'), one steps block), and
\* detect on that output reports no failure.
C25_SkeletonExactly ==
    /\ Fixed
    /\ given = Own
    /\ pipeline_type = "jenkins"
    /\ \E i \in 1..Len(report.failures) :
          report.failures[i].type = "missing_pipeline"
    => /\ patched # NoText
       /\ Tokens(patched) = JkSkeleton
       /\ pc = "redetected" => report2.failures = <<>>

---------------------------------------------------------------------------
(* Azure DevOps: dependsOn.                                                *)

\* the names a stage's dependsOn refers to, in order: the scalar, or the
\* entries of the list
AzReferences(stage) ==
    IF ~Contains(stage, K("dependsOn")) THEN <<>>
    ELSE LET depends_on == Get(stage, K("dependsOn"))
         IN  IF depends_on.t = "str" THEN <<depends_on>>
             ELSE IF depends_on.t = "seq" THEN depends_on.items
             ELSE <<>>

\* the names the stages of the list declare
AzDeclaredNames(stages) ==
    {Get(stages[i], K("name")) :
       i \in {k \in 1..Len(stages) : Contains(stages[k], K("name"))}}

RECURSIVE AzExpectedFrom(_, _)
\* the invalid_depends_on failures the stages from the i-th on call for:
\* for each stage in turn, one per reference to a name that no stage declares
AzExpectedFrom(stages, i) ==
    IF i > Len(stages) THEN <<>>
    ELSE LET bad == SelectSeq(AzReferences(stages[i]),
                              LAMBDA d : d \notin AzDeclaredNames(stages))
         IN  [j \in 1..Len(bad) |->
                [Finding("invalid_depends_on") EXCEPT
                   !.stage_index = IntV(i - 1), !.dependency = bad[j]]]
             \o AzExpectedFrom(stages, i + 1)

AzExpectedInvalidDependsOn(stages) == AzExpectedFrom(stages, 1)

\* C26: with `stages` present, the invalid_depends_on failures are exactly
\* one per stage and referenced name that is not the declared name of a
\* stage of the list, with the stage's index and the name; none for the
\* name of a declared stage.
C26_InvalidDependsOnExactly ==
    /\ Detected
    /\ pipeline_type = "azure_devops"
    /\ report.status = "success"
    /\ Loaded.val.t = "map"
    /\ Contains(Loaded.val, K("stages"))
    => SelectSeq(report.failures, LAMBDA f : f.type = "invalid_depends_on")
         = AzExpectedInvalidDependsOn(Get(Loaded.val, K("stages")).items)

---------------------------------------------------------------------------
(* GitHub Actions: jobs without steps.                                     *)

\* a job lacks steps: no `steps`, an empty list, or a null value
GhLacksSteps(job) ==
    \/ ~Contains(job, K("steps"))
    \/ Get(job, K("steps")) = None
    \/ Get(job, K("steps")) = List(<<>>)

\* C27: in a workflow whose jobs are mappings with `steps` absent, null or
\* a list, detect succeeds and reports missing_steps, located at the job's
\* name, for every job whose `steps` is absent, empty or null.
C27_EmptyStepsNeverAnError ==
    /\ Detected
    /\ pipeline_type = "github_actions"
    /\ LoadedJobs # <<>>
    /\ \A i \in 1..Len(LoadedJobs) :
          /\ LoadedJobs[i].v.t = "map"
          /\ \/ GhLacksSteps(LoadedJobs[i].v)
             \/ Get(LoadedJobs[i].v, K("steps")).t = "seq"
    => /\ report.status = "success"
       /\ \A i \in 1..Len(LoadedJobs) :
             GhLacksSteps(LoadedJobs[i].v) =>
                \E k \in 1..Len(report.failures) :
                   /\ report.failures[k].type = "missing_steps"
                   /\ report.failures[k].job = LoadedJobs[i].k

---------------------------------------------------------------------------
(* Repair and the failures of the repaired text.                           *)

\* two findings of the same kind at the same place
SameFinding(f, g) ==
    /\ f.type = g.type
    /\ f.job = g.job
    /\ f.job_index = g.job_index
    /\ f.stage_index = g.stage_index
    /\ pipeline_type = "jenkins" => f.stage = g.stage

\* C28: when detect succeeds with report r and fix returns a text, every
\* failure detect finds in that text has the kind and location of a
\* failure of r: the repair introduces none.
C28_FixIntroducesNoFailure ==
    /\ pc = "redetected"
    /\ given = Own
    /\ pipeline_type \in SupportedKinds
    /\ report.status = "success"
    => \A i \in 1..Len(report2.failures) :
          \E k \in 1..Len(report.failures) :
             SameFinding(report2.failures[i], report.failures[k])

\* a top-level entry of a GitLab document after the repair: a job keeps its
\* fields (and may gain those other repairs set), the stages list keeps
\* its stages first, anything else is unchanged
GlEntryKept(key, old, new) ==
    IF old.t = "map" THEN GlJobKept(old, new, GlPatchedFields(key))
    ELSE IF key = K("stages") /\ old.t = "seq"
    THEN /\ new.t = "seq"
         /\ Len(new.items) >= Len(old.items)
         /\ SubSeq(new.items, 1, Len(old.items)) = old.items
    ELSE new = old

\* C29: the missing_jobs patch of GitLab CI only adds: every top-level
\* entry of the document, an entry `build` without script included, is in
\* the patched document with its fields unchanged.
C29_MissingJobsOnlyAdds ==
    /\ FixedOwn
    /\ pipeline_type = "gitlab_ci"
    /\ report.status = "success"
    /\ \E i \in 1..Len(report.failures) :
          report.failures[i].type = "missing_jobs"
    => /\ patched # NoText
       /\ \A i \in 1..Len(Loaded.val.items) :
             LET e == Loaded.val.items[i]
             IN  /\ Contains(Repaired, e.k)
                 /\ GlEntryKept(e.k, e.v, Get(Repaired, e.k))

\* C30: fix with a report whose failures list is empty changes nothing: for
\* jenkins the text comes back as it was; for the structured kinds, on a
\* text that loads to a document, a text comes back that loads to the same
\* document, with the same keys, values and key order.
C30_NoFailuresNoChange ==
    /\ pc = "fixed"
    /\ pipeline_type \in SupportedKinds
    /\ TheReport # NotADict
    /\ GetFailures(TheReport) = <<>>
    => IF pipeline_type = "jenkins"
       THEN patched = pipeline_content
       ELSE Loaded.ok /\ Truthy(Loaded.val) =>
               /\ patched # NoText
               /\ yaml_safe_load(patched).ok
               /\ Repaired = Loaded.val

\* a workflow whose `on` is written quoted and whose report has only
\* warnings: the document comes back with the key 'on' and its jobs
C30_Witness ==
    /\ pc = "fixed"
    /\ given = Own
    /\ pipeline_type = "github_actions"
    /\ report.status = "success"
    /\ report.failures = <<>>
    /\ report.warnings # <<>>
    /\ patched # NoText
    /\ Contains(Loaded.val, K("on"))
    /\ Len(Loaded.val.items) > 1
    /\ Repaired = Loaded.val

====
